---- MODULE Spec2Model ----
(***************************************************************************)
(* Model of the browser player of neelsbester/noot4noot:                   *)
(*   - QRScanner (src/player/src/scanner.js): payload validation and the   *)
(*     cooldown / same-code debounce of handleScan, and the scanner's      *)
(*     start / stop lifecycle with its two decode timers;                  *)
(*   - the playback engines (playback-engine.js, sdk-player.js,            *)
(*     external-device-player.js);                                         *)
(*   - the session controller (src/unnamed/part_001).                      *)
(* Strings are JavaScript strings: sequences of characters, read with Len  *)
(* and SubSeq.                                                             *)
(***************************************************************************)
EXTENDS Integers, Sequences, FiniteSets, TLC

(***************************************************************************)
(* Optional values (null | value).                                         *)
(***************************************************************************)
None == [some |-> FALSE]
Some(v) == [some |-> TRUE, val |-> v]

(***************************************************************************)
(* State.  Each specification below drives one group of variables and      *)
(* leaves the others at their initial values.                              *)
(***************************************************************************)
\* extractSpotifyTrackUri on one text
VARIABLES exInput, extracted, exPc

extractVars == <<exInput, extracted, exPc>>

\* one QRScanner instance
VARIABLES
  now,                  \* Date.now()
  isScanning,           \* this.isScanning
  html5Scanner,         \* this.scanner: TRUE once an Html5Qrcode instance is held
  videoElement,         \* this.videoElement is set
  canvas,               \* this.canvas (and canvasCtx) is set
  scanInterval,         \* this.scanInterval holds the handle of the 100 ms timer
  invertedScanInterval, \* this.invertedScanInterval holds the handle of the 300 ms timer
  lastScannedCode,      \* this.lastScannedCode: None or the last accepted text
  lastScanTime,         \* this.lastScanTime
  camera,               \* the Html5Qrcode instance: "idle", "starting", "running", "stopping", "stopped", "failed"
  frameCount,           \* start()'s local frameCount, counted up to 1
  startPc,              \* start(): "idle" or "awaitCamera" (suspended at line 120)
  stopPc,               \* stop(): "idle" or "awaitRelease" (suspended at line 279)
  timers,               \* the interval timers the host runs: "jsqr" (100 ms), "inverted" (300 ms)
  onScanLog,            \* every onScan invocation: [uri, text, at]
  onErrorLog,           \* every onError invocation: the message
  lastCall,             \* the latest handleScan call
  started,              \* start() was called (the session calls it once per scanner)
  cycleThrew,           \* the step just taken was a decode cycle in which an exception was thrown
  cycle,                \* the decode cycle just run: the video it found, whether it read the frame
  stopReturned,         \* a stop() call on this instance has returned
  instances,            \* QRScanner instances the session has constructed, this one included
  acceptedBefore,       \* the last onScan invocation of the instance before this one
  callsBefore           \* handleScan calls made before this instance was constructed

scannerVars ==
  <<now, isScanning, html5Scanner, videoElement, canvas, scanInterval, invertedScanInterval,
    lastScannedCode, lastScanTime, camera, frameCount, startPc, stopPc, timers,
    onScanLog, onErrorLog, lastCall, started, cycleThrew, cycle,
    stopReturned, instances, acceptedBefore, callsBefore>>

gateVars == <<lastScannedCode, lastScanTime, onScanLog, lastCall>>
lifeVars ==
  <<isScanning, html5Scanner, videoElement, canvas, scanInterval, invertedScanInterval,
    camera, frameCount, startPc, stopPc, timers, onErrorLog, started>>
sessionOfScanner == <<stopReturned, instances, acceptedBefore, callsBefore>>

\* one playback engine
VARIABLES
  engine,       \* the engine object: its fields
  ops,          \* the owner's calls that are suspended at an await
  lastSettled,  \* the latest call that resolved or rejected
  nCalls,       \* calls the owner made
  net,          \* requests sent to the playback service (fetch calls)
  nEvents,      \* Spotify.Player events delivered
  destroyRun,   \* destroy() calls made in a row, nothing else since
  sdkPlayers,   \* Spotify.Player objects created and not disconnected
  dropped,      \* errors neither thrown to the caller nor passed to onError
  fired,        \* the owner's callbacks invoked in the step just taken, in order
  evt           \* the player_state_changed event delivered in the step just taken

engineVars == <<engine, ops, lastSettled, nCalls, net, nEvents, destroyRun, sdkPlayers, dropped, fired, evt>>

\* the session controller
VARIABLES
  screen,          \* the screen that is shown: "login", "setup" or "player"
  selectedDevice,  \* the id of the selected device
  currentMode,
  player,          \* the engine the session refers to: an index of engines, 0 for null
  scanner,         \* the QRScanner the session refers to: an index of scanners, 0 for null
  engines,         \* every engine the session constructed
  scanners,        \* every QRScanner the session constructed
  tasks,           \* the handlers suspended at an await
  nClicks,         \* acts of the user: clicks, and cards held to the camera
  tokenStored,     \* getStoredToken() returns a token: one is stored and has not expired
  failure          \* the engine call whose rejection a handler caught in the step just taken

sessionVars ==
  <<screen, selectedDevice, currentMode, player, scanner, engines, scanners, tasks, nClicks,
    tokenStored, failure>>

\* PlayerFactory
VARIABLES
  created,  \* the PlayerFactory.create calls made: mode, what was thrown, the object returned
  heap      \* engine objects constructed

factoryVars == <<created, heap>>

ExtractIdle == exInput = "" /\ extracted = None /\ exPc = "idle"

notExtract == <<scannerVars, engineVars, sessionVars, factoryVars>>
notScanner == <<extractVars, engineVars, sessionVars, factoryVars>>
notEngine == <<extractVars, scannerVars, sessionVars, factoryVars>>
notSession == <<extractVars, scannerVars, engineVars, factoryVars>>
notFactory == <<extractVars, scannerVars, engineVars, sessionVars>>

(***************************************************************************)
(* String helpers: String.prototype.trim / startsWith / split / includes.  *)
(***************************************************************************)
CharAt(s, i) == SubSeq(s, i, i)

WhitespaceChars == {" ", "\t", "\n", "\r"}

Lower == {"a","b","c","d","e","f","g","h","i","j","k","l","m",
          "n","o","p","q","r","s","t","u","v","w","x","y","z"}
Upper == {"A","B","C","D","E","F","G","H","I","J","K","L","M",
          "N","O","P","Q","R","S","T","U","V","W","X","Y","Z"}
Digit == {"0","1","2","3","4","5","6","7","8","9"}

\* the character class [a-zA-Z0-9]
AlnumChars == Lower \cup Upper \cup Digit

RECURSIVE TrimStart(_)
TrimStart(s) ==
  IF Len(s) > 0 /\ CharAt(s, 1) \in WhitespaceChars
  THEN TrimStart(SubSeq(s, 2, Len(s)))
  ELSE s

RECURSIVE TrimEnd(_)
TrimEnd(s) ==
  IF Len(s) > 0 /\ CharAt(s, Len(s)) \in WhitespaceChars
  THEN TrimEnd(SubSeq(s, 1, Len(s) - 1))
  ELSE s

Trim(s) == TrimEnd(TrimStart(s))

StartsWith(s, p) == Len(s) >= Len(p) /\ SubSeq(s, 1, Len(p)) = p

\* p occurs in s at position i
OccursAt(s, p, i) == i >= 1 /\ i + Len(p) - 1 <= Len(s) /\ SubSeq(s, i, i + Len(p) - 1) = p

Includes(s, p) == \E i \in 1..(Len(s) + 1) : OccursAt(s, p, i)

\* the prefix of s up to (not including) the first sep, or all of s
RECURSIVE UpToSep(_, _)
UpToSep(s, sep) ==
  IF Len(s) = 0 \/ CharAt(s, 1) = sep
  THEN ""
  ELSE CharAt(s, 1) \o UpToSep(SubSeq(s, 2, Len(s)), sep)

\* s.split(sep)[k] (k counted from 0); None when there are fewer fields
RECURSIVE SplitField(_, _, _)
SplitField(s, sep, k) ==
  LET first == UpToSep(s, sep)
  IN IF k = 0 THEN Some(first)
     ELSE IF Len(first) = Len(s) THEN None
     ELSE SplitField(SubSeq(s, Len(first) + 2, Len(s)), sep, k - 1)

\* length of the longest run of [a-zA-Z0-9] that starts at position i
RECURSIVE AlnumRun(_, _)
AlnumRun(s, i) ==
  IF i <= Len(s) /\ CharAt(s, i) \in AlnumChars
  THEN 1 + AlnumRun(s, i + 1)
  ELSE 0

(***************************************************************************)
(* QRScanner.isValidTrackId and QRScanner.extractSpotifyTrackUri.          *)
(***************************************************************************)
MinIdLen == 15
MaxIdLen == 25

UriPrefix == "spotify:track:"
UrlMarker == "open.spotify.com/track/"

\* the ID check without the upper length limit
isValidTrackId_NoUpperLimit(trackId) ==
  /\ trackId.some
  /\ Len(trackId.val) >= MinIdLen
  /\ AlnumRun(trackId.val, 1) = Len(trackId.val)

\* trackId && /^[a-zA-Z0-9]{15,25}$/.test(trackId); trackId is an optional string
isValidTrackId(trackId) ==
  /\ trackId.some
  /\ Len(trackId.val) >= MinIdLen
  /\ Len(trackId.val) <= MaxIdLen
  /\ AlnumRun(trackId.val, 1) = Len(trackId.val)

\* trimmed.match(/open\.spotify\.com\/track\/([a-zA-Z0-9]+)/): the capture group of
\* the leftmost match, None when nothing matches
UrlMatch(trimmed) ==
  LET hits == {i \in 1..Len(trimmed) :
                 /\ OccursAt(trimmed, UrlMarker, i)
                 /\ AlnumRun(trimmed, i + Len(UrlMarker)) >= 1}
  IN IF hits = {} THEN None
     ELSE LET i == CHOOSE h \in hits : \A g \in hits : h <= g
              from == i + Len(UrlMarker)
          IN Some(SubSeq(trimmed, from, from + AlnumRun(trimmed, from) - 1))

extractSpotifyTrackUri(content) ==
  IF Len(content) = 0 THEN None
  ELSE LET trimmed == Trim(content)
           urlMatch == UrlMatch(trimmed)
       IN IF StartsWith(trimmed, UriPrefix) /\ isValidTrackId(SplitField(trimmed, ":", 2))
          THEN Some(trimmed)
          ELSE IF urlMatch.some /\ isValidTrackId(urlMatch)
          THEN Some(UriPrefix \o urlMatch.val)
          ELSE None

(***************************************************************************)
(* extractSpotifyTrackUri applied to one scanned text.                     *)
(***************************************************************************)

\* how far below MinIdLen and above MaxIdLen the generated IDs reach
IdSlack == 1

RECURSIVE Rep(_, _)
Rep(c, n) == IF n = 0 THEN "" ELSE c \o Rep(c, n - 1)

IdLens == {0} \cup ((MinIdLen - IdSlack)..(MaxIdLen + IdSlack))
IdFills == {"a", "Q", "7"}
Leads == {"", " ", "x", "see ", "open.spotify.com/track/ab "}
Heads == {"", "spotify:track:", "spotify:album:", "spotify:track",
          "https://open.spotify.com/track/", "/track/", "https://example.com/track/"}
Tails == {"", " \n", ":x", "?si=abc", "_", "-b", "/"}

ScannedTexts ==
  {l \o h \o Rep(f, n) \o t : l \in Leads, h \in Heads, f \in IdFills, n \in IdLens, t \in Tails}

InitExtract ==
  /\ exInput \in ScannedTexts
  /\ extracted = None
  /\ exPc = "input"

\* one call extractSpotifyTrackUri(exInput)
Extract ==
  /\ exPc = "input"
  /\ extracted' = extractSpotifyTrackUri(exInput)
  /\ exPc' = "done"
  /\ UNCHANGED <<exInput, notExtract>>

NextExtract == Extract


\* s holds, at some position, the marker followed by a run of 15 to 25 alphanumerics
HoldsIdAfter(s, marker) ==
  \E i \in 1..Len(s) :
    /\ OccursAt(s, marker, i)
    /\ AlnumRun(s, i + Len(marker)) \in MinIdLen..MaxIdLen

\* C5 as stated: a track URI is returned if and only if the text contains a 15 to 25
\* character alphanumeric ID after 'spotify:track:' or inside a '/track/<ID>' path.
C5_ContainsIff ==
  exPc = "done" =>
    (extracted.some <=> (HoldsIdAfter(exInput, UriPrefix) \/ HoldsIdAfter(exInput, "/track/")))

\* first and last position of exInput that is not whitespace (0 when there is none)
FirstInk(s) ==
  IF \A i \in 1..Len(s) : CharAt(s, i) \in WhitespaceChars THEN 0
  ELSE CHOOSE i \in 1..Len(s) :
         /\ CharAt(s, i) \notin WhitespaceChars
         /\ \A j \in 1..(i - 1) : CharAt(s, j) \in WhitespaceChars
LastInk(s) ==
  IF \A i \in 1..Len(s) : CharAt(s, i) \in WhitespaceChars THEN 0
  ELSE CHOOSE i \in 1..Len(s) :
         /\ CharAt(s, i) \notin WhitespaceChars
         /\ \A j \in (i + 1)..Len(s) : CharAt(s, j) \in WhitespaceChars

\* the text, whitespace around it apart, is 'spotify:track:<ID>' alone or followed by ':'
IsUriForm(s) ==
  LET lo == FirstInk(s)
      hi == LastInk(s)
      from == lo + Len(UriPrefix)
  IN /\ lo > 0
     /\ OccursAt(s, UriPrefix, lo)
     /\ \E n \in MinIdLen..MaxIdLen :
          /\ from + n - 1 <= hi
          /\ \A k \in from..(from + n - 1) : CharAt(s, k) \in AlnumChars
          /\ (from + n - 1 = hi \/ CharAt(s, from + n) = ":")

\* the first 'open.spotify.com/track/<alphanumeric>' of the text carries a 15 to 25 ID
IsUrlForm(s) ==
  \E i \in 1..Len(s) :
    /\ OccursAt(s, UrlMarker, i)
    /\ AlnumRun(s, i + Len(UrlMarker)) \in MinIdLen..MaxIdLen
    /\ \A j \in 1..(i - 1) :
         ~(OccursAt(s, UrlMarker, j) /\ AlnumRun(s, j + Len(UrlMarker)) >= 1)

\* C5 (amended): a track URI is returned if and only if the trimmed text starts with
\* 'spotify:track:' and the text up to the next ':' (or the end) is an ID of 15 to 25
\* alphanumerics, or the first 'open.spotify.com/track/<alphanumerics>' in the text
\* carries an alphanumeric run of 15 to 25 characters; otherwise none is returned.
C5_ExtractIff ==
  exPc = "done" => (extracted.some <=> (IsUriForm(exInput) \/ IsUrlForm(exInput)))

\* a text with a bare '/track/<ID>' path and no host was refused, and a URL was accepted
C5_Witness ==
  /\ exPc = "done"
  /\ extracted.some
  /\ IsUrlForm(exInput)
  /\ ~IsUriForm(exInput)


(***************************************************************************)
(* QRScanner (scanner.js): one scanner instance, the camera library it     *)
(* drives (Html5Qrcode), its two decode timers and the clock.              *)
(***************************************************************************)
\* options.cooldownMs || 3000; the session passes 3000
cooldownMs == 3000

\* Date.now() is milliseconds since 1970: far beyond any cooldown window after 0
ClockStart == 100 * cooldownMs

\* the clock runs for this many cooldown windows
MaxWindows == 3
MaxCalls == 3

ClockSteps == {cooldownMs - 1, cooldownMs}
ClockEnd == ClockStart + MaxWindows * cooldownMs

TrackA == "spotify:track:4uLU6hMCjMI75M1A2tKUQC"
TrackB == "spotify:track:7ouMYWpwJ422jRcDASZB7P"
UrlA == "https://open.spotify.com/track/4uLU6hMCjMI75M1A2tKUQC?si=1"
NotATrack == "https://example.com/track/4uLU6hMCjMI75M1A2tKUQC"

\* what a decoder can read from a card
Payloads == {TrackA, TrackB, UrlA, NotATrack}

NoCall == [seq |-> 0, text |-> "", at |-> 0, accepted |-> FALSE, logBefore |-> 0]

\* the video element as a decode cycle finds it: readyState, videoWidth, videoHeight
VideoStates ==
  {[readyState |-> 0, videoWidth |-> 0, videoHeight |-> 0],
   [readyState |-> 4, videoWidth |-> 0, videoHeight |-> 480],
   [readyState |-> 4, videoWidth |-> 640, videoHeight |-> 0],
   [readyState |-> 4, videoWidth |-> 640, videoHeight |-> 480]}

\* no decode cycle ran in the step
NoCycle == [ran |-> FALSE, video |-> [readyState |-> 0, videoWidth |-> 0, videoHeight |-> 0], read |-> FALSE]

InitScanner ==
  /\ now = ClockStart
  /\ isScanning = FALSE
  /\ html5Scanner = FALSE
  /\ videoElement = FALSE
  /\ canvas = FALSE
  /\ scanInterval = FALSE
  /\ invertedScanInterval = FALSE
  /\ lastScannedCode = None
  /\ lastScanTime = 0
  /\ camera = "idle"
  /\ frameCount = 0
  /\ startPc = "idle"
  /\ stopPc = "idle"
  /\ timers = {}
  /\ onScanLog = <<>>
  /\ onErrorLog = <<>>
  /\ lastCall = NoCall
  /\ started = FALSE
  /\ cycleThrew = FALSE
  /\ cycle = NoCycle
  /\ stopReturned = FALSE
  /\ instances = 1
  /\ acceptedBefore = None
  /\ callsBefore = 0

\* the cooldown check one millisecond too short
InCooldown_OffByOne == now - lastScanTime < cooldownMs - 1

\* line 295: now - this.lastScanTime < this.cooldownMs
InCooldown == now - lastScanTime < cooldownMs

\* the same-code debounce with the single instead of the doubled cooldown
SameCodeDebounced_SingleWindow(decodedText) ==
  /\ lastScannedCode = Some(decodedText)
  /\ now - lastScanTime < cooldownMs

\* the doubled window applied to every text, not only to the last accepted one
SameCodeDebounced_AnyCode(decodedText) ==
  /\ lastScannedCode.some
  /\ now - lastScanTime < cooldownMs * 2

\* line 300: decodedText === this.lastScannedCode && now - this.lastScanTime < this.cooldownMs * 2
SameCodeDebounced(decodedText) ==
  /\ lastScannedCode = Some(decodedText)
  /\ now - lastScanTime < cooldownMs * 2

\* extractSpotifyTrackUri (line 305) on each of the decoded texts
TrackUriOf == [decodedText \in Payloads |-> extractSpotifyTrackUri(decodedText)]

\* the call record of handleScan(decodedText)
CallRecord(decodedText, accepted) ==
  [seq |-> lastCall.seq + 1, text |-> decodedText, at |-> now,
   accepted |-> accepted, logBefore |-> Len(onScanLog)]

\* handleScan(decodedText), lines 291-322, with trackUri the result of its
\* extractSpotifyTrackUri(decodedText) call (line 305)
HandleScanFound(decodedText, trackUri) ==
  IF InCooldown \/ SameCodeDebounced(decodedText) \/ ~trackUri.some
  THEN /\ lastCall' = CallRecord(decodedText, FALSE)
       /\ UNCHANGED <<lastScannedCode, lastScanTime, onScanLog>>
  ELSE /\ lastScannedCode' = Some(decodedText)
       /\ lastScanTime' = now
       /\ onScanLog' = Append(onScanLog,
            [uri |-> trackUri.val, text |-> decodedText, at |-> now])
       /\ lastCall' = CallRecord(decodedText, TRUE)

\* handleScan stamping lastScanTime before it validates the text
HandleScan_StampBeforeValidate(decodedText) ==
  LET trackUri == TrackUriOf[decodedText]
  IN IF InCooldown \/ SameCodeDebounced(decodedText)
     THEN /\ lastCall' = CallRecord(decodedText, FALSE)
          /\ UNCHANGED <<lastScannedCode, lastScanTime, onScanLog>>
     ELSE /\ lastScannedCode' = Some(decodedText)
          /\ lastScanTime' = now
          /\ IF trackUri.some
             THEN /\ onScanLog' = Append(onScanLog,
                        [uri |-> trackUri.val, text |-> decodedText, at |-> now])
                  /\ lastCall' = CallRecord(decodedText, TRUE)
             ELSE /\ lastCall' = CallRecord(decodedText, FALSE)
                  /\ UNCHANGED onScanLog

\* handleScan(decodedText), lines 291-322, on one of the card texts
HandleScan(decodedText) == HandleScanFound(decodedText, TrackUriOf[decodedText])

\* the clock advances
Tick ==
  /\ UNCHANGED notScanner
  /\ cycleThrew' = FALSE
  /\ cycle' = NoCycle
  /\ UNCHANGED sessionOfScanner
  /\ \E d \in ClockSteps : now + d <= ClockEnd /\ now' = now + d
  /\ UNCHANGED <<gateVars, lifeVars>>

\* start() up to its await (lines 94-120)
StartBegin ==
  /\ UNCHANGED notScanner
  /\ cycleThrew' = FALSE
  /\ cycle' = NoCycle
  /\ UNCHANGED sessionOfScanner
  /\ startPc = "idle"
  /\ ~started
  /\ ~isScanning
  /\ html5Scanner' = TRUE
  /\ camera' = "starting"
  /\ frameCount' = 0
  /\ startPc' = "awaitCamera"
  /\ started' = TRUE
  /\ UNCHANGED <<now, gateVars, isScanning, videoElement, canvas, scanInterval,
                 invertedScanInterval, stopPc, timers, onErrorLog>>

\* the camera came up: start() resumes and sets isScanning (line 140)
StartResolved ==
  /\ UNCHANGED notScanner
  /\ cycleThrew' = FALSE
  /\ cycle' = NoCycle
  /\ UNCHANGED sessionOfScanner
  /\ startPc = "awaitCamera"
  /\ camera = "starting"
  /\ camera' = "running"
  /\ isScanning' = TRUE
  /\ startPc' = "idle"
  /\ UNCHANGED <<now, gateVars, html5Scanner, videoElement, canvas, scanInterval,
                 invertedScanInterval, frameCount, stopPc, timers, onErrorLog, started>>

CameraErrors == {"NotAllowedError", "NotFoundError", "NotReadableError", "Error"}

\* handleError's message (lines 372-387)
ErrorMessage(name) ==
  CASE name = "NotAllowedError" -> "Camera permission denied. Please allow camera access and reload."
    [] name = "NotFoundError" -> "No camera found on this device."
    [] name = "NotReadableError" -> "Camera is in use by another application."
    [] OTHER -> "Scanner error"

\* the camera failed: start() reports through onError and rethrows (lines 143-147)
StartRejected ==
  /\ UNCHANGED notScanner
  /\ cycleThrew' = FALSE
  /\ cycle' = NoCycle
  /\ UNCHANGED sessionOfScanner
  /\ startPc = "awaitCamera"
  /\ camera = "starting"
  /\ camera' = "failed"
  /\ startPc' = "idle"
  /\ \E e \in CameraErrors : onErrorLog' = Append(onErrorLog, ErrorMessage(e))
  /\ UNCHANGED <<now, gateVars, isScanning, html5Scanner, videoElement, canvas,
                 scanInterval, invertedScanInterval, frameCount, stopPc, timers, started>>

CameraDelivers == camera \in {"running", "stopping"}

\* the library decoded a frame: the success callback (lines 123-126)
NormalScan ==
  /\ UNCHANGED notScanner
  /\ cycleThrew' = FALSE
  /\ cycle' = NoCycle
  /\ UNCHANGED sessionOfScanner
  /\ CameraDelivers
  /\ lastCall.seq < MaxCalls
  /\ \E text \in Payloads : HandleScan(text)
  /\ UNCHANGED <<now, lifeVars>>

\* the library decoded the card in front of the camera, whose text is exInput:
\* the success callback (lines 123-126)
CardScan ==
  /\ UNCHANGED notScanner
  /\ cycleThrew' = FALSE
  /\ cycle' = NoCycle
  /\ UNCHANGED sessionOfScanner
  /\ CameraDelivers
  /\ lastCall.seq < MaxCalls
  /\ HandleScanFound(exInput, extractSpotifyTrackUri(exInput))
  /\ UNCHANGED <<now, lifeVars>>

\* startInvertedScanning's effect (lines 153-176), given whether the video element is found
StartInvertedScanning(found) ==
  IF ~found
  THEN UNCHANGED <<videoElement, canvas, scanInterval, invertedScanInterval, timers>>
  ELSE /\ videoElement' = TRUE
       /\ canvas' = TRUE
       /\ scanInterval' = TRUE
       /\ invertedScanInterval' = TRUE
       /\ timers' = timers \cup {"jsqr", "inverted"}

\* the library found no code in a frame: the error callback (lines 127-137)
FrameWithoutCode ==
  /\ UNCHANGED notScanner
  /\ cycleThrew' = FALSE
  /\ cycle' = NoCycle
  /\ UNCHANGED sessionOfScanner
  /\ CameraDelivers
  /\ frameCount' = 1
  /\ IF frameCount = 0
     THEN \E found \in (IF camera = "running" THEN {TRUE} ELSE BOOLEAN) :
            StartInvertedScanning(found)
     ELSE UNCHANGED <<videoElement, canvas, scanInterval, invertedScanInterval, timers>>
  /\ UNCHANGED <<now, gateVars, isScanning, html5Scanner, camera, startPc, stopPc,
                 onErrorLog, started>>

\* what reading and decoding the current frame gives: nothing, a text, or an exception
DecodeOutcomes == {None} \cup {Some(t) : t \in Payloads} \cup {[some |-> FALSE, threw |-> TRUE]}

\* the outcome is an exception
Threw(outcome) == "threw" \in DOMAIN outcome

\* the guards without the test of the frame's width and height
ReadsFrame_NoSizeCheck(video) ==
  /\ videoElement /\ canvas /\ isScanning
  /\ video.readyState = 4

\* a decode cycle gets as far as reading the frame (lines 182-189, 220-226)
ReadsFrame(video) ==
  /\ videoElement /\ canvas /\ isScanning
  /\ video.readyState = 4
  /\ video.videoWidth # 0 /\ video.videoHeight # 0

\* a decode cycle whose catch block reports the exception through handleError
DecodeCycle_ReportsError(video, outcome) ==
  /\ cycleThrew' = (ReadsFrame(video) /\ Threw(outcome))
  /\ cycle' = [ran |-> TRUE, video |-> video, read |-> ReadsFrame(video)]
  /\ IF ReadsFrame(video) /\ outcome.some THEN HandleScan(outcome.val) ELSE UNCHANGED gateVars
  /\ onErrorLog' = IF ReadsFrame(video) /\ Threw(outcome)
                   THEN Append(onErrorLog, ErrorMessage("Error")) ELSE onErrorLog
  /\ UNCHANGED <<isScanning, html5Scanner, videoElement, canvas, scanInterval, invertedScanInterval,
                 camera, frameCount, startPc, stopPc, timers, started>>

\* a decode cycle of scanWithJsQR (lines 181-213) or scanInvertedFrame (lines 219-255)
DecodeCycle(video, outcome) ==
  /\ cycleThrew' = (ReadsFrame(video) /\ Threw(outcome))
  /\ cycle' = [ran |-> TRUE, video |-> video, read |-> ReadsFrame(video)]
  /\ IF ReadsFrame(video) /\ outcome.some THEN HandleScan(outcome.val) ELSE UNCHANGED gateVars
  /\ UNCHANGED lifeVars

\* the 100 ms timer fires: scanWithJsQR
ScanWithJsQR ==
  /\ UNCHANGED notScanner
  /\ "jsqr" \in timers
  /\ lastCall.seq < MaxCalls
  /\ \E video \in VideoStates :
       \E outcome \in (IF ReadsFrame(video) THEN DecodeOutcomes ELSE {None}) :
         DecodeCycle(video, outcome)
  /\ UNCHANGED <<now, sessionOfScanner>>

\* the 300 ms timer fires: scanInvertedFrame
ScanInvertedFrame ==
  /\ UNCHANGED notScanner
  /\ "inverted" \in timers
  /\ lastCall.seq < MaxCalls
  /\ \E video \in VideoStates :
       \E outcome \in (IF ReadsFrame(video) THEN DecodeOutcomes ELSE {None}) :
         DecodeCycle(video, outcome)
  /\ UNCHANGED <<now, sessionOfScanner>>

\* the video element with a frame to read
FrameStates ==
  {video \in VideoStates :
     video.readyState = 4 /\ video.videoWidth # 0 /\ video.videoHeight # 0}

\* the 100 ms timer fires while the video has a frame: scanWithJsQR
ScanWithJsQROnFrame ==
  /\ UNCHANGED notScanner
  /\ "jsqr" \in timers
  /\ lastCall.seq < MaxCalls
  /\ \E video \in FrameStates :
       \E outcome \in (IF ReadsFrame(video) THEN DecodeOutcomes ELSE {None}) :
         DecodeCycle(video, outcome)
  /\ UNCHANGED <<now, sessionOfScanner>>

\* the 300 ms timer fires while the video has a frame: scanInvertedFrame
ScanInvertedFrameOnFrame ==
  /\ UNCHANGED notScanner
  /\ "inverted" \in timers
  /\ lastCall.seq < MaxCalls
  /\ \E video \in FrameStates :
       \E outcome \in (IF ReadsFrame(video) THEN DecodeOutcomes ELSE {None}) :
         DecodeCycle(video, outcome)
  /\ UNCHANGED <<now, sessionOfScanner>>

\* a stop() that clears the 100 ms timer only
ClearedTimers_OnlyJsqr == {t \in timers : ~(t = "jsqr" /\ scanInterval)}

\* clearInterval on the handles stop() holds (lines 263-272)
ClearedTimers ==
  {t \in timers : ~(t = "jsqr" /\ scanInterval) /\ ~(t = "inverted" /\ invertedScanInterval)}

\* stop() up to its return or its await (lines 261-279)
StopBegin ==
  /\ UNCHANGED notScanner
  /\ cycleThrew' = FALSE
  /\ cycle' = NoCycle
  /\ stopReturned' = (stopReturned \/ ~isScanning \/ ~html5Scanner)
  /\ UNCHANGED <<instances, acceptedBefore, callsBefore>>
  /\ stopPc = "idle"
  /\ timers' = ClearedTimers
  /\ scanInterval' = FALSE
  /\ invertedScanInterval' = FALSE
  /\ IF ~isScanning \/ ~html5Scanner
     THEN UNCHANGED <<camera, stopPc>>
     ELSE camera' = "stopping" /\ stopPc' = "awaitRelease"
  /\ UNCHANGED <<now, gateVars, isScanning, html5Scanner, videoElement, canvas,
                 frameCount, startPc, onErrorLog, started>>

\* the camera was released: stop() resumes (lines 280-281)
StopResolved ==
  /\ UNCHANGED notScanner
  /\ cycleThrew' = FALSE
  /\ cycle' = NoCycle
  /\ stopReturned' = TRUE
  /\ UNCHANGED <<instances, acceptedBefore, callsBefore>>
  /\ stopPc = "awaitRelease"
  /\ camera' = "stopped"
  /\ isScanning' = FALSE
  /\ stopPc' = "idle"
  /\ UNCHANGED <<now, gateVars, html5Scanner, videoElement, canvas, scanInterval,
                 invertedScanInterval, frameCount, startPc, timers, onErrorLog, started>>

\* the library refused to stop: stop() swallows the error (lines 282-284)
StopRejected ==
  /\ UNCHANGED notScanner
  /\ cycleThrew' = FALSE
  /\ cycle' = NoCycle
  /\ stopReturned' = TRUE
  /\ UNCHANGED <<instances, acceptedBefore, callsBefore>>
  /\ stopPc = "awaitRelease"
  /\ camera' = "running"
  /\ stopPc' = "idle"
  /\ UNCHANGED <<now, gateVars, isScanning, html5Scanner, videoElement, canvas,
                 scanInterval, invertedScanInterval, frameCount, startPc, timers, onErrorLog,
                 started>>

\* how many QRScanner instances the session constructs, one after the other
MaxScanners == 2

\* a new instance that takes over the suppression state of the one before
FreshGate_KeptFromBefore == UNCHANGED <<lastScannedCode, lastScanTime>>

\* the constructor's suppression state (lines 84-85)
FreshGate ==
  /\ lastScannedCode' = None
  /\ lastScanTime' = 0

\* startScanner once more (part_001 lines 448-456), after stop() returned to
\* handleChangeDevice: a new QRScanner (constructor, lines 71-88) replaces the
\* instance and its start() runs up to its await (lines 94-120).  The instance
\* before it is dropped with its camera, its timers and the record of its
\* callbacks, of which the last accepted scan is kept.
StartScannerAgain ==
  /\ UNCHANGED notScanner
  /\ cycleThrew' = FALSE
  /\ cycle' = NoCycle
  /\ started
  /\ stopReturned
  /\ instances < MaxScanners
  /\ instances' = instances + 1
  /\ acceptedBefore' = IF onScanLog = <<>> THEN None ELSE Some(onScanLog[Len(onScanLog)])
  /\ callsBefore' = lastCall.seq
  /\ stopReturned' = FALSE
  /\ FreshGate
  /\ isScanning' = FALSE
  /\ html5Scanner' = TRUE
  /\ videoElement' = FALSE
  /\ canvas' = FALSE
  /\ scanInterval' = FALSE
  /\ invertedScanInterval' = FALSE
  /\ camera' = "starting"
  /\ frameCount' = 0
  /\ startPc' = "awaitCamera"
  /\ stopPc' = "idle"
  /\ timers' = {}
  /\ onScanLog' = <<>>
  /\ onErrorLog' = <<>>
  /\ lastCall' = [NoCall EXCEPT !.seq = lastCall.seq]
  /\ UNCHANGED <<now, started>>

NextScanner ==
  \/ Tick
  \/ StartBegin
  \/ StartResolved
  \/ StartRejected
  \/ NormalScan
  \/ FrameWithoutCode
  \/ ScanWithJsQROnFrame
  \/ ScanInvertedFrameOnFrame
  \/ StopBegin
  \/ StopResolved
  \/ StopRejected

\* one QRScanner read by its two decode timers only, on a video in any state
NextDecode ==
  \/ StartBegin
  \/ StartResolved
  \/ StartRejected
  \/ FrameWithoutCode
  \/ ScanWithJsQR
  \/ ScanInvertedFrame
  \/ StopBegin
  \/ StopResolved
  \/ StopRejected

\* one QRScanner shown one card
NextCard ==
  \/ StartBegin
  \/ StartResolved
  \/ CardScan

\* the scanners of a session that changes device and scans again, read by the
\* camera library's decoder
NextRescan ==
  \/ Tick
  \/ StartBegin
  \/ StartResolved
  \/ StartRejected
  \/ NormalScan
  \/ StopBegin
  \/ StopResolved
  \/ StopRejected
  \/ StartScannerAgain



(***************************************************************************)
(* Playback engines (playback-engine.js, sdk-player.js,                    *)
(* external-device-player.js): one engine constructed by                   *)
(* PlayerFactory.create, its owner's calls, the service's responses and,   *)
(* for the SDK engine, the events of the Spotify.Player it holds.          *)
(***************************************************************************)
\* how many calls the owner makes and how many SDK events arrive
MaxEngineCalls == 2
MaxSdkEvents == 2

IdA == "4uLU6hMCjMI75M1A2tKUQC"
TrackIds == {IdA}

\* the track URIs the owner asks to play
TrackUris == {UriPrefix \o id : id \in TrackIds}

\* the TrackInfo built from the service's track object (year from album.release_date)
ServiceTrackInfo(id) ==
  [id |-> id, uri |-> UriPrefix \o id, name |-> "Track " \o SubSeq(id, 1, 4), year |-> Some(1984)]

\* the TrackInfo built from a player_state_changed event (sdk-player.js lines 125-137)
EventTrackInfo(id) ==
  [id |-> id, uri |-> UriPrefix \o id, name |-> "Track " \o SubSeq(id, 1, 4), year |-> None]

\* the placeholder of SDKPlayer._fetchTrackInfo (lines 268-280)
UnknownTrackInfo(trackId) ==
  [id |-> trackId, uri |-> UriPrefix \o trackId, name |-> "Unknown Track", year |-> None]

\* HTTP responses of the playback service: status and body text
ErrorResponses ==
  {[status |-> 401, body |-> "The access token expired"],
   [status |-> 403, body |-> "Player command failed: Premium required"],
   [status |-> 404, body |-> "Device not found"],
   [status |-> 500, body |-> "Server error"]}

\* responses to a player command (PUT) and to a track lookup (GET /tracks/<id>)
CommandResponses == {[status |-> 200, body |-> ""], [status |-> 204, body |-> ""]} \cup ErrorResponses
LookupResponses == {[status |-> 200, body |-> "track"]} \cup ErrorResponses

\* response.ok
Ok(response) == response.status >= 200 /\ response.status <= 299

\* new SDKPlayer() / new ExternalDevicePlayer() (with the PlaybackEngine constructor)
NewEngine(type) ==
  [type |-> type, isPlaying |-> FALSE, currentTrack |-> None,
   onTrackEnd |-> FALSE, onError |-> FALSE, onStateChange |-> FALSE,
   token |-> None, deviceId |-> None, deviceName |-> None,
   player |-> FALSE, ready |-> FALSE, volume |-> 50, getTokenCallback |-> FALSE]

\* PlayerFactory.create(mode)
Modes == {"sdk", "external"}

NoSettled ==
  [id |-> 0, op |-> "none", arg |-> "", input |-> 0, outcome |-> "none", value |-> None, message |-> "", status |-> 0,
   reqs |-> 0, sent |-> 0, readyAtCall |-> FALSE,
   isPlayingAt |-> FALSE, trackAt |-> None, isPlayingBefore |-> FALSE, trackBefore |-> None]

InitEngine ==
  /\ engine \in {NewEngine(m) : m \in Modes}
  /\ ops = {}
  /\ lastSettled = NoSettled
  /\ nCalls = 0
  /\ net = 0
  /\ nEvents = 0
  /\ destroyRun = 0
  /\ sdkPlayers = 0
  /\ dropped = 0
  /\ fired = << >>
  /\ evt = None

EngineIdle ==
  /\ engine = NewEngine("sdk")
  /\ ops = {}
  /\ lastSettled = NoSettled
  /\ nCalls = 0
  /\ net = 0
  /\ nEvents = 0
  /\ destroyRun = 0
  /\ sdkPlayers = 0
  /\ dropped = 0
  /\ fired = << >>
  /\ evt = None

\* a pending call of the owner, suspended at pc
NewOp(op, arg, sent, pc, reqs) ==
  [id |-> nCalls + 1, op |-> op, arg |-> arg, input |-> 0, sent |-> sent, pc |-> pc, reqs |-> reqs,
   readyAtCall |-> engine.ready,
   isPlayingBefore |-> engine.isPlaying, trackBefore |-> engine.currentTrack]

\* the record of a call that settled, with the engine as the call leaves it
Settle(o, outcome, value, message, status, eng) ==
  [id |-> o.id, op |-> o.op, arg |-> o.arg, input |-> o.input, outcome |-> outcome, value |-> value, message |-> message,
   status |-> status, reqs |-> o.reqs, sent |-> o.sent, readyAtCall |-> o.readyAtCall,
   isPlayingAt |-> eng.isPlaying, trackAt |-> eng.currentTrack,
   isPlayingBefore |-> o.isPlayingBefore, trackBefore |-> o.trackBefore]

CanCall == nCalls < MaxEngineCalls

(***************************************************************************)
(* ExternalDevicePlayer.                                                   *)
(***************************************************************************)
\* _apiRequest without its 404 check
ApiRequestError_No404(response) ==
  IF response.status = 401 THEN Some("Token expired. Please log in again.")
  ELSE IF response.status = 403 THEN Some("Premium required for playback control.")
  ELSE None

\* _apiRequest's mapping of a response (lines 74-86): the error message it throws, or None
ApiRequestError(response) ==
  IF response.status = 401 THEN Some("Token expired. Please log in again.")
  ELSE IF response.status = 403 THEN Some("Premium required for playback control.")
  ELSE IF response.status = 404 THEN Some("No active device found. Open Spotify on a device first.")
  ELSE None

\* initialize(options) of the external engine (lines 47-56)
ExtInitialize ==
  /\ CanCall
  /\ engine.type = "external"
  /\ \E tok \in {None, Some("token-1")} :
       IF ~tok.some
       THEN /\ lastSettled' = Settle(NewOp("initialize", "", 0, "done", 0), "rejected", None,
                                     "Access token required for external device player", 0, engine)
            /\ UNCHANGED engine
       ELSE /\ engine' = [engine EXCEPT !.token = tok]
            /\ lastSettled' = Settle(NewOp("initialize", tok.val, 0, "done", 0), "resolved", None, "", 0, engine')
  /\ nCalls' = nCalls + 1
  /\ UNCHANGED <<ops, net, nEvents>>
  /\ destroyRun' = 0
  /\ fired' = << >>
  /\ evt' = None
  /\ UNCHANGED <<sdkPlayers, dropped>>
  /\ UNCHANGED notEngine

DeviceIds == {"device-1"}

\* togglePlayback (playback-engine.js lines 135-142): the call it makes
Toggled == IF engine.isPlaying THEN "pause" ELSE "resume"

\* the call a pending call is in: togglePlayback is in the pause() or resume() it made
Inner(o) == IF o.op = "togglePlayback" THEN o.arg ELSE o.op

\* setVolume's arguments
Percents == {-10, 50, 150}

\* the clamp without its lower limit
Clamp_NoFloor(percent) == IF percent > 100 THEN 100 ELSE percent

\* Math.max(0, Math.min(100, percent))
Clamp(percent) == IF percent < 0 THEN 0 ELSE IF percent > 100 THEN 100 ELSE percent

\* setDevice(deviceId, deviceName) (lines 109-112)
ExtSetDevice ==
  /\ CanCall
  /\ engine.type = "external"
  /\ \E d \in DeviceIds : engine' = [engine EXCEPT !.deviceId = Some(d), !.deviceName = Some("Speaker")]
  /\ nCalls' = nCalls + 1
  /\ UNCHANGED <<ops, lastSettled, net, nEvents>>
  /\ destroyRun' = 0
  /\ fired' = << >>
  /\ evt' = None
  /\ UNCHANGED <<sdkPlayers, dropped>>
  /\ UNCHANGED notEngine

\* a call that starts with one _apiRequest: play (lines 140-151), pause (211-217),
\* resume (227-233), setVolume (243-251), transferPlayback (119-126)
ExtCall ==
  /\ CanCall
  /\ engine.type = "external"
  /\ \E c \in {[op |-> "play", arg |-> u, input |-> 0] : u \in TrackUris}
            \cup {[op |-> "pause", arg |-> "", input |-> 0], [op |-> "resume", arg |-> "", input |-> 0]}
            \cup {[op |-> "togglePlayback", arg |-> Toggled, input |-> 0]}
            \cup {[op |-> "setVolume", arg |-> "", input |-> p] : p \in Percents}
            \cup {[op |-> "transferPlayback", arg |-> d, input |-> 0] : d \in DeviceIds} :
       ops' = ops \cup {[NewOp(c.op, c.arg, IF c.op = "setVolume" THEN Clamp(c.input) ELSE 0, "api", 1)
                          EXCEPT !.input = c.input]}
  /\ net' = net + 1
  /\ nCalls' = nCalls + 1
  /\ UNCHANGED <<engine, lastSettled, nEvents>>
  /\ destroyRun' = 0
  /\ fired' = << >>
  /\ evt' = None
  /\ UNCHANGED <<sdkPlayers, dropped>>
  /\ UNCHANGED notEngine

\* the message a call throws for a response that _apiRequest passed but that is not ok
ExtNotOkMessage(op, status) ==
  CASE op = "play" -> IF status = 404 THEN "No active device. Open Spotify on your device first."
                      ELSE "Failed to start playback"
    [] op = "pause" -> "Failed to pause playback"
    [] op = "resume" -> "Failed to resume playback"
    [] op = "setVolume" -> "Failed to set volume"
    [] op = "transferPlayback" -> "Failed to transfer playback"
    [] OTHER -> "Failed to get track info"

\* a pause() that flips isPlaying
ExtAfterOk_PauseFlips(o) ==
  CASE Inner(o) = "play" -> [engine EXCEPT !.isPlaying = TRUE]
    [] Inner(o) = "pause" -> [engine EXCEPT !.isPlaying = ~@]
    [] Inner(o) = "resume" -> [engine EXCEPT !.isPlaying = TRUE]
    [] Inner(o) = "transferPlayback" -> [engine EXCEPT !.deviceId = Some(o.arg)]
    [] OTHER -> engine

\* the engine after a call's first request succeeded
ExtAfterOk(o) ==
  CASE Inner(o) = "play" -> [engine EXCEPT !.isPlaying = TRUE]
    [] Inner(o) = "pause" -> [engine EXCEPT !.isPlaying = FALSE]
    [] Inner(o) = "resume" -> [engine EXCEPT !.isPlaying = TRUE]
    [] Inner(o) = "transferPlayback" -> [engine EXCEPT !.deviceId = Some(o.arg)]
    [] OTHER -> engine

\* the response to a call's first request arrives
ExtResponse ==
  /\ engine.type = "external"
  /\ \E o \in ops, r \in CommandResponses :
       /\ o.pc = "api"
       /\ LET mapped == ApiRequestError(r)
              rest == ops \ {o}
          IN IF mapped.some
             THEN /\ lastSettled' = Settle(o, "rejected", None, mapped.val, r.status, engine)
                  /\ ops' = rest
                  /\ UNCHANGED <<engine, net>>
             ELSE IF ~Ok(r) /\ r.status # 204
             THEN /\ lastSettled' = Settle(o, "rejected", None, ExtNotOkMessage(Inner(o), r.status), r.status, engine)
                  /\ ops' = rest
                  /\ UNCHANGED <<engine, net>>
             ELSE IF o.op = "play"
             THEN \* lines 163-167: playing, then the track info request
                  /\ engine' = ExtAfterOk(o)
                  /\ ops' = rest \cup {[o EXCEPT !.pc = "info", !.reqs = 2]}
                  /\ net' = net + 1
                  /\ UNCHANGED lastSettled
             ELSE /\ engine' = ExtAfterOk(o)
                  /\ ops' = rest
                  /\ lastSettled' = Settle(o, "resolved", None, "", r.status, engine')
                  /\ UNCHANGED net
       \* lines 224, 240: pause() and resume() end with _emitStateChange()
       /\ fired' = IF ~ApiRequestError(r).some /\ (Ok(r) \/ r.status = 204)
                      /\ Inner(o) \in {"pause", "resume"} /\ engine.onStateChange
                   THEN <<"onStateChange">> ELSE << >>
  /\ UNCHANGED <<nCalls, nEvents>>
  /\ destroyRun' = 0
  /\ evt' = None
  /\ UNCHANGED <<sdkPlayers, dropped>>
  /\ UNCHANGED notEngine

\* the response to play()'s track info request arrives (_fetchTrackInfo, lines 177-199)
ExtTrackInfoResponse ==
  /\ engine.type = "external"
  /\ \E o \in ops, r \in LookupResponses :
       /\ o.pc = "info"
       /\ LET mapped == ApiRequestError(r)
              info == ServiceTrackInfo(SplitField(o.arg, ":", 2).val)
          IN IF mapped.some
             THEN /\ lastSettled' = Settle(o, "rejected", None, mapped.val, r.status, engine)
                  /\ UNCHANGED engine
             ELSE IF ~Ok(r)
             THEN /\ lastSettled' = Settle(o, "rejected", None, ExtNotOkMessage("trackInfo", r.status), r.status, engine)
                  /\ UNCHANGED engine
             ELSE /\ engine' = [engine EXCEPT !.currentTrack = Some(info)]
                  /\ lastSettled' = Settle(o, "resolved", Some(info), "", r.status, engine')
       /\ ops' = ops \ {o}
  /\ UNCHANGED <<nCalls, net, nEvents>>
  /\ destroyRun' = 0
  /\ fired' = << >>
  /\ evt' = None
  /\ UNCHANGED <<sdkPlayers, dropped>>
  /\ UNCHANGED notEngine

\* destroy() without the call of super.destroy()
Destroyed_NoSuper(eng) ==
  IF eng.type = "sdk"
  THEN [eng EXCEPT !.player = FALSE, !.deviceId = None, !.ready = FALSE]
  ELSE [eng EXCEPT !.deviceId = None, !.deviceName = None]

\* destroy() (PlaybackEngine lines 156-159, SDKPlayer 312-320, ExternalDevicePlayer 290-294)
Destroyed(eng) ==
  IF eng.type = "sdk"
  THEN [eng EXCEPT !.player = FALSE, !.deviceId = None, !.ready = FALSE,
                   !.isPlaying = FALSE, !.currentTrack = None]
  ELSE [eng EXCEPT !.deviceId = None, !.deviceName = None,
                   !.isPlaying = FALSE, !.currentTrack = None]

Destroy ==
  /\ CanCall
  /\ engine' = Destroyed(engine)
  /\ nCalls' = nCalls + 1
  /\ UNCHANGED <<ops, lastSettled, net, nEvents>>
  /\ destroyRun' = destroyRun + 1
  /\ fired' = << >>
  /\ evt' = None
  /\ sdkPlayers' = IF engine.type = "sdk" /\ engine.player THEN sdkPlayers - 1 ELSE sdkPlayers
  /\ UNCHANGED dropped
  /\ UNCHANGED notEngine


(***************************************************************************)
(* SDKPlayer.                                                              *)
(***************************************************************************)
\* initialize(options) storing its options before it looks at the token
SdkInitialize_StoreFirst ==
  /\ CanCall
  /\ engine.type = "sdk"
  /\ \E tok \in {None, Some("token-1")} :
       /\ engine' = [engine EXCEPT !.token = tok, !.getTokenCallback = TRUE, !.volume = 50]
       /\ IF ~tok.some
          THEN /\ lastSettled' = Settle(NewOp("initialize", "", 0, "done", 0), "rejected", None,
                                        "Access token required for SDK player", 0, engine')
               /\ UNCHANGED ops
          ELSE /\ ops' = ops \cup {NewOp("initialize", tok.val, 0, "sdk", 0)}
               /\ UNCHANGED lastSettled
  /\ nCalls' = nCalls + 1
  /\ UNCHANGED <<net, nEvents>>
  /\ destroyRun' = 0
  /\ fired' = << >>
  /\ evt' = None
  /\ UNCHANGED <<sdkPlayers, dropped>>
  /\ UNCHANGED notEngine

\* initialize(options) up to the wait for the SDK script (lines 46-58)
SdkInitialize ==
  /\ CanCall
  /\ engine.type = "sdk"
  /\ \E tok \in {None, Some("token-1")} :
       IF ~tok.some
       THEN /\ lastSettled' = Settle(NewOp("initialize", "", 0, "done", 0), "rejected", None,
                                     "Access token required for SDK player", 0, engine)
            /\ UNCHANGED <<engine, ops>>
       ELSE /\ engine' = [engine EXCEPT !.token = tok, !.getTokenCallback = TRUE, !.volume = 50]
            /\ ops' = ops \cup {NewOp("initialize", tok.val, 0, "sdk", 0)}
            /\ UNCHANGED lastSettled
  /\ nCalls' = nCalls + 1
  /\ UNCHANGED <<net, nEvents>>
  /\ destroyRun' = 0
  /\ fired' = << >>
  /\ evt' = None
  /\ UNCHANGED <<sdkPlayers, dropped>>
  /\ UNCHANGED notEngine

\* the SDK script is there: the player is created, listened to and connected (lines 60-156)
SdkLoaded ==
  /\ engine.type = "sdk"
  /\ \E o \in ops :
       /\ o.op = "initialize" /\ o.pc = "sdk"
       /\ ops' = (ops \ {o}) \cup {[o EXCEPT !.pc = "ready"]}
  /\ engine' = [engine EXCEPT !.player = TRUE]
  /\ UNCHANGED <<lastSettled, nCalls, net, nEvents>>
  /\ destroyRun' = 0
  /\ fired' = << >>
  /\ evt' = None
  /\ sdkPlayers' = sdkPlayers + 1
  /\ UNCHANGED dropped
  /\ UNCHANGED notEngine

\* the SDK script did not load within the timeout (_waitForSDK, lines 183-186)
SdkLoadTimeout ==
  /\ engine.type = "sdk"
  /\ \E o \in ops :
       /\ o.op = "initialize" /\ o.pc = "sdk"
       /\ ops' = ops \ {o}
       /\ lastSettled' = Settle(o, "rejected", None,
                                "Spotify SDK failed to load. Please refresh the page.", 0, engine)
  /\ UNCHANGED <<engine, nCalls, net, nEvents>>
  /\ destroyRun' = 0
  /\ fired' = << >>
  /\ evt' = None
  /\ UNCHANGED <<sdkPlayers, dropped>>
  /\ UNCHANGED notEngine

\* the initialize() calls whose promise a listener of the player settles
AwaitingReady == {o \in ops : o.op = "initialize" /\ o.pc = "ready"}

\* an event of the Spotify.Player reaches its listener
CanEvent == engine.type = "sdk" /\ engine.player /\ nEvents < MaxSdkEvents

\* the 'ready' listener (lines 102-107)
SdkReady ==
  /\ CanEvent
  /\ \E d \in DeviceIds : engine' = [engine EXCEPT !.deviceId = Some(d), !.ready = TRUE]
  /\ IF AwaitingReady = {}
     THEN UNCHANGED <<ops, lastSettled>>
     ELSE \E o \in AwaitingReady :
            /\ ops' = ops \ {o}
            /\ lastSettled' = Settle(o, "resolved", None, "", 0, engine')
  /\ nEvents' = nEvents + 1
  /\ UNCHANGED <<nCalls, net>>
  /\ destroyRun' = 0
  /\ fired' = << >>
  /\ evt' = None
  /\ UNCHANGED <<sdkPlayers, dropped>>
  /\ UNCHANGED notEngine

\* the 'not_ready' listener (lines 110-113)
SdkNotReady ==
  /\ CanEvent
  /\ engine' = [engine EXCEPT !.ready = FALSE]
  /\ nEvents' = nEvents + 1
  /\ UNCHANGED <<ops, lastSettled, nCalls, net>>
  /\ destroyRun' = 0
  /\ fired' = << >>
  /\ evt' = None
  /\ UNCHANGED <<sdkPlayers, dropped>>
  /\ UNCHANGED notEngine

\* the 'initialization_error' listener (lines 81-84) and a failed connect() (lines 152-156)
SdkInitFailed ==
  /\ CanEvent
  /\ \E o \in AwaitingReady, msg \in {"SDK initialization failed: Failed to initialize",
                                     "Failed to connect to Spotify"} :
       /\ ops' = ops \ {o}
       /\ lastSettled' = Settle(o, "rejected", None, msg, 0, engine)
  /\ nEvents' = nEvents + 1
  /\ UNCHANGED <<engine, nCalls, net>>
  /\ destroyRun' = 0
  /\ fired' = << >>
  /\ evt' = None
  /\ UNCHANGED <<sdkPlayers, dropped>>
  /\ UNCHANGED notEngine

\* the states a player_state_changed event carries: null, or paused, position,
\* track_window.current_track and whether track_window.previous_tracks has entries
AnyPlayerStates ==
  {[null |-> TRUE, paused |-> FALSE, position |-> 0, track |-> None, hasPrevious |-> FALSE]}
  \cup {[null |-> FALSE, paused |-> p, position |-> pos, track |-> t, hasPrevious |-> h] :
          p \in BOOLEAN, pos \in {0, 1000}, t \in {None} \cup {Some(id) : id \in TrackIds},
          h \in BOOLEAN}

\* the states of a player in the middle of its first track
PlayerStates ==
  {state \in AnyPlayerStates : ~state.null /\ state.position # 0 /\ ~state.hasPrevious}

\* a track-end test that does not look at the position
TrackEnded_AnyPause(state) == state.paused /\ state.hasPrevious

\* the track-end test (line 146)
TrackEnded(state) == state.paused /\ state.position = 0 /\ state.hasPrevious

\* the 'player_state_changed' listener (lines 116-149) on one state
PlayerStateChanged(state) ==
  /\ evt' = Some([null |-> state.null, paused |-> state.paused, position |-> state.position,
                  hasPrevious |-> state.hasPrevious])
  /\ IF state.null
     THEN UNCHANGED engine /\ fired' = << >>
     ELSE /\ engine' = [engine EXCEPT
                !.isPlaying = ~state.paused,
                !.currentTrack = IF state.track.some THEN Some(EventTrackInfo(state.track.val)) ELSE @]
          /\ fired' = (IF engine.isPlaying # ~state.paused /\ engine.onStateChange
                       THEN <<"onStateChange">> ELSE << >>)
                      \o (IF TrackEnded(state) /\ engine.onTrackEnd
                          THEN <<"onTrackEnd">> ELSE << >>)
  /\ nEvents' = nEvents + 1
  /\ UNCHANGED <<ops, lastSettled, nCalls, net>>
  /\ destroyRun' = 0
  /\ UNCHANGED <<sdkPlayers, dropped>>
  /\ UNCHANGED notEngine

\* a player_state_changed event of a player in the middle of its first track
SdkPlayerStateChanged ==
  /\ CanEvent
  /\ \E state \in PlayerStates : PlayerStateChanged(state)

\* a player_state_changed event of any kind
SdkPlayerStateEvent ==
  /\ CanEvent
  /\ \E state \in AnyPlayerStates : PlayerStateChanged(state)

\* a gate that looks at the device id only
SdkNotReadyForPlay_DeviceOnly == ~engine.deviceId.some

\* play()'s readiness gate (line 197)
SdkNotReadyForPlay == ~engine.ready \/ ~engine.deviceId.some

\* play(trackUri) up to its first await (lines 196-211)
SdkPlay ==
  /\ CanCall
  /\ engine.type = "sdk"
  /\ \E u \in TrackUris :
       IF SdkNotReadyForPlay
       THEN /\ lastSettled' = Settle(NewOp("play", u, 0, "done", 0), "rejected", None,
                                     "SDK player not ready", 0, engine)
            /\ UNCHANGED <<ops, net>>
       ELSE /\ ops' = ops \cup {NewOp("play", u, 0, "api", 1)}
            /\ net' = net + 1
            /\ UNCHANGED lastSettled
  /\ nCalls' = nCalls + 1
  /\ UNCHANGED <<engine, nEvents>>
  /\ destroyRun' = 0
  /\ fired' = << >>
  /\ evt' = None
  /\ UNCHANGED <<sdkPlayers, dropped>>
  /\ UNCHANGED notEngine

\* the message play() throws for a failed playback request (lines 213-225)
SdkPlayError(response) ==
  IF response.status = 401 THEN "Token expired. Please log in again."
  ELSE IF response.status = 403 THEN "Spotify Premium required for playback."
  ELSE IF response.status = 404 THEN "Player not found. Please refresh the page."
  ELSE "Playback failed: " \o response.body

\* the response to play()'s playback request arrives (lines 213-230)
SdkPlayResponse ==
  /\ engine.type = "sdk"
  /\ \E o \in ops, r \in CommandResponses :
       /\ o.op = "play" /\ o.pc = "api"
       /\ IF ~Ok(r) /\ r.status # 204
          THEN /\ lastSettled' = Settle(o, "rejected", None, SdkPlayError(r), r.status, engine)
               /\ ops' = ops \ {o}
               /\ UNCHANGED <<engine, net>>
          ELSE /\ engine' = [engine EXCEPT !.isPlaying = TRUE]
               /\ ops' = (ops \ {o}) \cup {[o EXCEPT !.pc = "info", !.reqs = 2]}
               /\ net' = net + 1
               /\ UNCHANGED lastSettled
  /\ UNCHANGED <<nCalls, nEvents>>
  /\ destroyRun' = 0
  /\ fired' = << >>
  /\ evt' = None
  /\ UNCHANGED <<sdkPlayers, dropped>>
  /\ UNCHANGED notEngine

\* _fetchTrackInfo's result for a response (lines 240-281)
SdkFetchedTrackInfo(trackId, response) ==
  IF Ok(response) THEN ServiceTrackInfo(trackId)
  ELSE IF engine.currentTrack.some THEN engine.currentTrack.val
  ELSE UnknownTrackInfo(trackId)

\* the response to play()'s track info request arrives (lines 230-233)
SdkTrackInfoResponse ==
  /\ engine.type = "sdk"
  /\ \E o \in ops, r \in LookupResponses :
       /\ o.op = "play" /\ o.pc = "info"
       /\ LET info == SdkFetchedTrackInfo(SplitField(o.arg, ":", 2).val, r)
          IN /\ engine' = [engine EXCEPT !.currentTrack = Some(info)]
             /\ lastSettled' = Settle(o, "resolved", Some(info), "", r.status, engine')
       /\ ops' = ops \ {o}
       \* lines 250-252, 265-267: the failure is logged, not thrown
       /\ dropped' = IF Ok(r) THEN dropped ELSE dropped + 1
  /\ UNCHANGED <<nCalls, net, nEvents>>
  /\ destroyRun' = 0
  /\ fired' = << >>
  /\ evt' = None
  /\ UNCHANGED sdkPlayers
  /\ UNCHANGED notEngine

\* pause(), resume() and setVolume(percent) up to their await (lines 293-310)
SdkCall ==
  /\ CanCall
  /\ engine.type = "sdk"
  /\ \E c \in {[op |-> "pause", arg |-> "", input |-> 0], [op |-> "resume", arg |-> "", input |-> 0]}
            \cup {[op |-> "togglePlayback", arg |-> Toggled, input |-> 0]}
            \cup {[op |-> "setVolume", arg |-> "", input |-> p] : p \in Percents} :
       LET sent == IF c.op = "setVolume" THEN Clamp(c.input) ELSE 0
       IN /\ engine' = IF c.op = "setVolume" THEN [engine EXCEPT !.volume = sent] ELSE engine
          /\ IF engine.player
             THEN /\ ops' = ops \cup {[NewOp(c.op, c.arg, sent, "player", 0) EXCEPT !.input = c.input]}
                  /\ UNCHANGED lastSettled
             ELSE /\ lastSettled' = Settle([NewOp(c.op, c.arg, sent, "done", 0) EXCEPT !.input = c.input],
                                           "resolved", None, "", 0, engine')
                  /\ UNCHANGED ops
  /\ nCalls' = nCalls + 1
  /\ UNCHANGED <<net, nEvents>>
  /\ destroyRun' = 0
  /\ fired' = << >>
  /\ evt' = None
  /\ UNCHANGED <<sdkPlayers, dropped>>
  /\ UNCHANGED notEngine

\* the Spotify.Player finished a pause / resume / setVolume command
SdkCallResolved ==
  /\ engine.type = "sdk"
  /\ \E o \in ops :
       /\ o.pc = "player"
       /\ ops' = ops \ {o}
       /\ lastSettled' = Settle(o, "resolved", None, "", 0, engine)
  /\ UNCHANGED <<engine, nCalls, net, nEvents>>
  /\ destroyRun' = 0
  /\ fired' = << >>
  /\ evt' = None
  /\ UNCHANGED <<sdkPlayers, dropped>>
  /\ UNCHANGED notEngine

\* the owner sets onTrackEnd, onError and onStateChange (playback-engine.js lines 76-94)
SetCallbacks ==
  /\ ~engine.onError
  /\ engine' = [engine EXCEPT !.onTrackEnd = TRUE, !.onError = TRUE, !.onStateChange = TRUE]
  /\ destroyRun' = 0
  /\ fired' = << >>
  /\ evt' = None
  /\ UNCHANGED <<ops, lastSettled, nCalls, net, nEvents, sdkPlayers, dropped>>
  /\ UNCHANGED notEngine

\* the 'authentication_error', 'account_error' and 'playback_error' listeners
\* (lines 86-99) with _emitError (playback-engine.js lines 186-190)
SdkErrorEvent ==
  /\ CanEvent
  /\ \E kind \in {"authentication_error", "account_error", "playback_error"} :
       dropped' = IF engine.onError THEN dropped ELSE dropped + 1
  /\ nEvents' = nEvents + 1
  /\ destroyRun' = 0
  /\ fired' = IF engine.onError THEN <<"onError">> ELSE << >>
  /\ evt' = None
  /\ UNCHANGED <<engine, ops, lastSettled, nCalls, net, sdkPlayers>>
  /\ UNCHANGED notEngine

NextEngine ==
  \/ SetCallbacks
  \/ SdkErrorEvent
  \/ ExtInitialize
  \/ ExtSetDevice
  \/ ExtCall
  \/ ExtResponse
  \/ ExtTrackInfoResponse
  \/ Destroy
  \/ SdkInitialize
  \/ SdkLoaded
  \/ SdkLoadTimeout
  \/ SdkReady
  \/ SdkNotReady
  \/ SdkInitFailed
  \/ SdkPlayerStateChanged
  \/ SdkPlay
  \/ SdkPlayResponse
  \/ SdkTrackInfoResponse
  \/ SdkCall
  \/ SdkCallResolved

\* an SDK engine from its construction to its destruction under the events of
\* its Spotify.Player, the owner making no playback call
NextListener ==
  \/ SetCallbacks
  \/ SdkInitialize
  \/ SdkLoaded
  \/ SdkReady
  \/ SdkNotReady
  \/ SdkPlayerStateEvent
  \/ SdkErrorEvent
  \/ Destroy

\* initialize() of an SDK engine and what the SDK script and the
\* Spotify.Player answer
NextInitialize ==
  \/ SdkInitialize
  \/ SdkLoaded
  \/ SdkLoadTimeout
  \/ SdkReady
  \/ SdkNotReady
  \/ SdkInitFailed
  \/ SdkErrorEvent

\* _waitForSDK ends by the script's callback or by its timer (lines 163-189)
ScriptAnswers == SdkLoaded \/ SdkLoadTimeout

\* the Spotify.Player answers connect() with an event
PlayerAnswers == SdkReady \/ SdkNotReady \/ SdkInitFailed \/ SdkErrorEvent

\* the plays of one scanning session
MaxPlays == 2

IdB == "7ouMYWpwJ422jRcDASZB7P"

\* the track URIs of the cards of a game
CardUris == {UriPrefix \o IdA, UriPrefix \o IdB}

\* the engine as the session holds it when scanning begins: initialized and
\* ready with the callbacks of initializeSDKPlayer (part_001 lines 376-398),
\* or initialized with the device and the callback of initializeExternalPlayer
\* (part_001 lines 428-435)
SessionEngine(type) ==
  IF type = "sdk"
  THEN [NewEngine("sdk") EXCEPT !.token = Some("token-1"), !.getTokenCallback = TRUE,
                                !.player = TRUE, !.ready = TRUE, !.deviceId = Some("device-1"),
                                !.onTrackEnd = TRUE, !.onError = TRUE, !.onStateChange = TRUE]
  ELSE [NewEngine("external") EXCEPT !.token = Some("token-1"),
                                     !.deviceId = Some("device-1"), !.deviceName = Some("Speaker"),
                                     !.onError = TRUE]

\* calls and events are counted from the start of scanning
InitPlays ==
  /\ engine \in {SessionEngine(type) : type \in Modes}
  /\ ops = {}
  /\ lastSettled = NoSettled
  /\ nCalls = 0
  /\ net = 0
  /\ nEvents = 0
  /\ destroyRun = 0
  /\ sdkPlayers = (IF engine.type = "sdk" THEN 1 ELSE 0)
  /\ dropped = 0
  /\ fired = << >>
  /\ evt = None

\* handleChangeDevice has destroyed the engine (part_001 lines 516-519): a
\* session engine has its connection, respectively its device, until then
EngineDropped == IF engine.type = "sdk" THEN ~engine.player ELSE ~engine.deviceId.some

\* handleScan's player.play(spotifyUri) (part_001 line 546) on the engine in
\* use: play up to its first await (sdk-player.js lines 196-211,
\* external-device-player.js lines 140-152)
PlayScanned ==
  /\ nCalls < MaxPlays
  /\ ~EngineDropped
  /\ \E u \in CardUris :
       IF engine.type = "sdk" /\ SdkNotReadyForPlay
       THEN /\ lastSettled' = Settle(NewOp("play", u, 0, "done", 0), "rejected", None,
                                     "SDK player not ready", 0, engine)
            /\ UNCHANGED <<ops, net>>
       ELSE /\ ops' = ops \cup {NewOp("play", u, 0, "api", 1)}
            /\ net' = net + 1
            /\ UNCHANGED lastSettled
  /\ nCalls' = nCalls + 1
  /\ UNCHANGED <<engine, nEvents>>
  /\ destroyRun' = 0
  /\ fired' = << >>
  /\ evt' = None
  /\ UNCHANGED <<sdkPlayers, dropped>>
  /\ UNCHANGED notEngine

\* the plays of a scanning session on its engine, up to a change of device
NextPlays ==
  \/ PlayScanned
  \/ ExtResponse
  \/ ExtTrackInfoResponse
  \/ SdkPlayResponse
  \/ SdkTrackInfoResponse
  \/ Destroy

(***************************************************************************)
(* The session controller: the globals player, scanner, currentMode and    *)
(* selectedDevice, the visible screen, and the handlers of its buttons.    *)
(* Each handler is an async function: it runs up to an await in one step   *)
(* and is resumed by the completion it waits for.                          *)
(***************************************************************************)
MaxClicks == 4

SdkBrowser == "SDK_BROWSER"
ExternalDevices == {"device-1"}

\* a PlaybackEngine the session constructed
NewSessionEngine(type, init) == [type |-> type, init |-> init, destroyed |-> 0, callbacks |-> FALSE]

\* a QRScanner the session constructed and started (scanner.js lines 71-88, 94-120)
NewSessionScanner == [camera |-> "starting", isScanning |-> FALSE, timers |-> FALSE, framed |-> FALSE]

\* a handler suspended at an await
Task(id, kind, pc, eng, scn, dev) ==
  [id |-> id, kind |-> kind, pc |-> pc, eng |-> eng, scn |-> scn, dev |-> dev]

\* no rejection caught
NoFailure == [op |-> "none", kind |-> "none", eng |-> 0]

\* the session after init() found a token: the setup screen, the device list loading
InitSession ==
  /\ screen = "setup"
  /\ selectedDevice = None
  /\ currentMode = None
  /\ player = 0
  /\ scanner = 0
  /\ engines = << >>
  /\ scanners = << >>
  /\ tasks = {Task(0, "refresh", "devices", 0, 0, "")}
  /\ nClicks = 0
  /\ tokenStored = TRUE
  /\ failure = NoFailure

CanClick == nClicks < MaxClicks

\* a click on a device of the list: selectDevice up to its fetch (lines 220-228, 310-320)
SelectDeviceClick ==
  /\ CanClick
  /\ screen = "setup"
  /\ \E d \in {SdkBrowser} \cup ExternalDevices :
       tasks' = tasks \cup {Task(nClicks + 1, "select", "devices", 0, 0, d)}
  /\ nClicks' = nClicks + 1
  /\ UNCHANGED <<screen, selectedDevice, currentMode, player, scanner, engines, scanners>>
  /\ failure' = NoFailure
  /\ UNCHANGED tokenStored
  /\ UNCHANGED notSession

\* selectDevice after its fetch (lines 321-343)
SelectDeviceFetched ==
  /\ \E t \in tasks, found \in BOOLEAN :
       /\ t.kind = "select"
       /\ found \/ t.dev # SdkBrowser
       /\ selectedDevice' = IF found THEN Some(t.dev) ELSE selectedDevice
       /\ tasks' = tasks \ {t}
  /\ UNCHANGED <<screen, currentMode, player, scanner, engines, scanners, nClicks>>
  /\ failure' = NoFailure
  /\ UNCHANGED tokenStored
  /\ UNCHANGED notSession

\* refreshDevices after its fetch (lines 233-281): with nothing selected, an
\* active device of the list is selected
RefreshDevicesDone ==
  /\ \E t \in tasks, active \in {None} \cup {Some(d) : d \in ExternalDevices} :
       /\ t.kind = "refresh"
       /\ selectedDevice' = IF ~selectedDevice.some /\ active.some THEN active ELSE selectedDevice
       /\ tasks' = tasks \ {t}
  /\ UNCHANGED <<screen, currentMode, player, scanner, engines, scanners, nClicks>>
  /\ failure' = NoFailure
  /\ UNCHANGED tokenStored
  /\ UNCHANGED notSession

\* a click on Start: startPlayback (lines 347-365) into initializeSDKPlayer up to
\* its await of initialize (lines 370-380), or through initializeExternalPlayer
\* (lines 425-439) into startScanner up to its await of start (lines 448-456)
StartPlayback ==
  /\ CanClick
  /\ screen = "setup"
  /\ nClicks' = nClicks + 1
  /\ IF ~selectedDevice.some
     THEN UNCHANGED <<screen, selectedDevice, currentMode, player, scanner, engines, scanners, tasks>>
     ELSE IF selectedDevice.val = SdkBrowser
     THEN /\ currentMode' = Some("sdk")
          /\ engines' = Append(engines, NewSessionEngine("sdk", "pending"))
          /\ player' = Len(engines) + 1
          /\ tasks' = tasks \cup {Task(nClicks + 1, "start", "initialize", Len(engines) + 1, 0, "")}
          /\ UNCHANGED <<screen, selectedDevice, scanner, scanners>>
     ELSE /\ currentMode' = Some("external")
          /\ engines' = Append(engines, [NewSessionEngine("external", "ok") EXCEPT !.callbacks = TRUE])
          /\ player' = Len(engines) + 1
          /\ screen' = "player"
          /\ scanners' = Append(scanners, NewSessionScanner)
          /\ scanner' = Len(scanners) + 1
          /\ tasks' = tasks \cup {Task(nClicks + 1, "start", "scannerStart", 0, Len(scanners) + 1, "")}
          /\ UNCHANGED selectedDevice
  /\ failure' = NoFailure
  /\ UNCHANGED tokenStored
  /\ UNCHANGED notSession

\* initializeSDKPlayer after initialize resolved (lines 381-401) into startScanner
\* (lines 448-456); with player null the first assignment throws
InitializeSDKResolved ==
  /\ \E t \in tasks :
       /\ t.kind = "start" /\ t.pc = "initialize"
       /\ IF player = 0
          THEN /\ engines' = [engines EXCEPT ![t.eng].init = "ok"]
               /\ tasks' = tasks \ {t}
               /\ UNCHANGED <<screen, scanner, scanners>>
          ELSE /\ engines' = [[engines EXCEPT ![t.eng].init = "ok"] EXCEPT ![player].callbacks = TRUE]
               /\ screen' = "player"
               /\ scanners' = Append(scanners, NewSessionScanner)
               /\ scanner' = Len(scanners) + 1
               /\ tasks' = (tasks \ {t}) \cup {Task(t.id, "start", "scannerStart", 0, Len(scanners) + 1, "")}
  /\ UNCHANGED <<selectedDevice, currentMode, player, nClicks>>
  /\ failure' = NoFailure
  /\ UNCHANGED tokenStored
  /\ UNCHANGED notSession

\* initializeSDKPlayer's catch (lines 405-419): a message about Premium or the
\* account destroys the engine and returns to the device list, any other is rethrown
InitializeSDKRejected ==
  /\ \E t \in tasks, premium \in BOOLEAN :
       /\ t.kind = "start" /\ t.pc = "initialize"
       /\ IF premium /\ player # 0
          THEN /\ engines' = [[engines EXCEPT ![t.eng].init = "failed"] EXCEPT ![player].destroyed = @ + 1]
               /\ player' = 0
               /\ selectedDevice' = None
               /\ screen' = "setup"
               /\ tasks' = (tasks \ {t}) \cup {Task(t.id, "refresh", "devices", 0, 0, "")}
          ELSE /\ engines' = [engines EXCEPT ![t.eng].init = "failed"]
               /\ tasks' = tasks \ {t}
               /\ UNCHANGED <<player, selectedDevice, screen>>
       /\ failure' = [op |-> "initialize", kind |-> IF premium THEN "premium" ELSE "other", eng |-> t.eng]
  /\ UNCHANGED <<currentMode, scanner, scanners, nClicks>>
  /\ UNCHANGED tokenStored
  /\ UNCHANGED notSession

\* the camera started: QRScanner.start after its await (scanner.js lines 140-141),
\* startScanner after its await (line 457)
ScannerStartResolved ==
  /\ \E t \in tasks :
       /\ t.kind = "start" /\ t.pc = "scannerStart"
       /\ scanners' = [scanners EXCEPT ![t.scn].camera = "running", ![t.scn].isScanning = TRUE]
       /\ tasks' = tasks \ {t}
  /\ UNCHANGED <<screen, selectedDevice, currentMode, player, scanner, engines, nClicks>>
  /\ failure' = NoFailure
  /\ UNCHANGED tokenStored
  /\ UNCHANGED notSession

\* the camera did not start: QRScanner.start's catch (scanner.js lines 143-147),
\* startScanner's catch (lines 459-462)
ScannerStartRejected ==
  /\ \E t \in tasks :
       /\ t.kind = "start" /\ t.pc = "scannerStart"
       /\ scanners' = [scanners EXCEPT ![t.scn].camera = "failed"]
       /\ tasks' = tasks \ {t}
  /\ UNCHANGED <<screen, selectedDevice, currentMode, player, scanner, engines, nClicks>>
  /\ failure' = NoFailure
  /\ UNCHANGED tokenStored
  /\ UNCHANGED notSession

\* the first frame of a running camera arms the decode timers
\* (scanner.js lines 127-133, 153-176)
ScannerFirstFrame ==
  /\ \E i \in DOMAIN scanners :
       /\ scanners[i].camera = "running" /\ ~scanners[i].framed
       /\ scanners' = [scanners EXCEPT ![i].framed = TRUE, ![i].timers = TRUE]
  /\ UNCHANGED <<screen, selectedDevice, currentMode, player, scanner, engines, tasks, nClicks>>
  /\ failure' = NoFailure
  /\ UNCHANGED tokenStored
  /\ UNCHANGED notSession

\* the engines after handleChangeDevice's player.destroy() (lines 516-519)
ChangeDestroys == IF player # 0 THEN [engines EXCEPT ![player].destroyed = @ + 1] ELSE engines

\* the screen handleChangeDevice ends on (lines 525-531): the device list with
\* a stored token, the login screen without
ScreenAfterChange == IF tokenStored THEN "setup" ELSE "login"

\* a click on Change device: handleChangeDevice (lines 510-532) up to the await
\* inside QRScanner.stop (scanner.js lines 261-271), or to its end when stop
\* returns early
HandleChangeDevice ==
  /\ CanClick
  /\ screen = "player"
  /\ nClicks' = nClicks + 1
  /\ IF scanner # 0 /\ scanners[scanner].isScanning
     THEN /\ scanners' = [scanners EXCEPT ![scanner].timers = FALSE, ![scanner].camera = "stopping"]
          /\ tasks' = tasks \cup {Task(nClicks + 1, "change", "scannerStop", 0, scanner, "")}
          /\ UNCHANGED <<screen, selectedDevice, currentMode, player, scanner, engines>>
     ELSE /\ scanners' = IF scanner # 0 THEN [scanners EXCEPT ![scanner].timers = FALSE] ELSE scanners
          /\ scanner' = 0
          /\ engines' = ChangeDestroys
          /\ player' = 0
          /\ selectedDevice' = None
          /\ currentMode' = None
          /\ screen' = ScreenAfterChange
          /\ tasks' = tasks \cup (IF tokenStored THEN {Task(nClicks + 1, "refresh", "devices", 0, 0, "")} ELSE {})
  /\ failure' = NoFailure
  /\ UNCHANGED tokenStored
  /\ UNCHANGED notSession

\* the camera stopped: QRScanner.stop after its await (scanner.js lines 272-280),
\* handleChangeDevice after its await (lines 513-531)
ScannerStopResolved ==
  /\ \E t \in tasks :
       /\ t.kind = "change" /\ t.pc = "scannerStop"
       /\ scanners' = [scanners EXCEPT ![t.scn].camera = "stopped", ![t.scn].isScanning = FALSE]
       /\ tasks' = (tasks \ {t}) \cup (IF tokenStored THEN {Task(t.id, "refresh", "devices", 0, 0, "")} ELSE {})
  /\ scanner' = 0
  /\ engines' = ChangeDestroys
  /\ player' = 0
  /\ selectedDevice' = None
  /\ currentMode' = None
  /\ screen' = ScreenAfterChange
  /\ UNCHANGED nClicks
  /\ failure' = NoFailure
  /\ UNCHANGED tokenStored
  /\ UNCHANGED notSession

\* the kinds of result of player.play: resolved, or rejected with the message
\* of a 401, of a 403, of a missing device, or with another message
PlayResults == {"resolved", "auth", "premium", "device", "other"}

\* a scanner of the session reports a card: handleScan (lines 537-546) up to
\* its await of player.play; with player null the call throws into the catch
\* (lines 558-564), which shows the message
ScanDelivered ==
  /\ CanClick
  /\ \E i \in DOMAIN scanners :
       /\ scanners[i].camera = "running" /\ scanners[i].isScanning
       /\ tasks' = IF player = 0 THEN tasks
                   ELSE tasks \cup {Task(nClicks + 1, "scan", "play", player, i, "")}
  /\ nClicks' = nClicks + 1
  /\ UNCHANGED <<screen, selectedDevice, currentMode, player, scanner, engines, scanners>>
  /\ failure' = NoFailure
  /\ UNCHANGED tokenStored
  /\ UNCHANGED notSession

\* player.play settled: handleScan after its await (lines 548-555) or its
\* catch (lines 557-564), which shows the message and a hint about the device
PlaySettled ==
  /\ \E t \in tasks, result \in PlayResults :
       /\ t.kind = "scan" /\ t.pc = "play"
       /\ tasks' = tasks \ {t}
       /\ failure' = IF result = "resolved" THEN NoFailure
                     ELSE [op |-> "play", kind |-> result, eng |-> t.eng]
  /\ UNCHANGED <<screen, selectedDevice, currentMode, player, scanner, engines, scanners, nClicks>>
  /\ UNCHANGED tokenStored
  /\ UNCHANGED notSession

\* the stored token passes its expiry time (part_000 lines 195-214)
TokenExpires ==
  /\ tokenStored
  /\ tokenStored' = FALSE
  /\ failure' = NoFailure
  /\ UNCHANGED <<screen, selectedDevice, currentMode, player, scanner, engines, scanners, tasks, nClicks>>
  /\ UNCHANGED notSession

\* a click on Log in and the return from the service: the page is loaded anew
\* and init (lines 70-107) runs initializeWithToken (lines 128-159) with the
\* token of the callback, up to the device list or, with the token refused,
\* back to the login screen
LoginCompleted ==
  /\ CanClick
  /\ screen = "login"
  /\ nClicks' = nClicks + 1
  /\ \E ok \in BOOLEAN :
       /\ tokenStored' = ok
       /\ screen' = IF ok THEN "setup" ELSE "login"
       /\ tasks' = IF ok THEN {Task(nClicks + 1, "refresh", "devices", 0, 0, "")} ELSE {}
  /\ selectedDevice' = None
  /\ currentMode' = None
  /\ player' = 0
  /\ scanner' = 0
  /\ engines' = << >>
  /\ scanners' = << >>
  /\ failure' = NoFailure
  /\ UNCHANGED notSession

NextSession ==
  \/ SelectDeviceClick
  \/ SelectDeviceFetched
  \/ RefreshDevicesDone
  \/ StartPlayback
  \/ InitializeSDKResolved
  \/ InitializeSDKRejected
  \/ ScannerStartResolved
  \/ ScannerStartRejected
  \/ ScannerFirstFrame
  \/ HandleChangeDevice
  \/ ScannerStopResolved
  \/ ScanDelivered
  \/ PlaySettled
  \/ TokenExpires
  \/ LoginCompleted

(***************************************************************************)
(* PlayerFactory.create (player-factory.js lines 26-37).                   *)
(***************************************************************************)
MaxCreates == 3

\* the mode values create is called with
FactoryModes == {"sdk", "external", "bogus", "", "SDK", "local", "remote", "preview"}

\* a create whose default branch builds an SDKPlayer
create_DefaultsToSdk(mode) ==
  IF mode = "external"
  THEN [threw |-> FALSE, message |-> "", engine |-> Some(NewEngine("external"))]
  ELSE [threw |-> FALSE, message |-> "", engine |-> Some(NewEngine("sdk"))]

\* PlayerFactory.create(mode): the engine it constructs or the error it throws
create(mode) ==
  CASE mode = "sdk" -> [threw |-> FALSE, message |-> "", engine |-> Some(NewEngine("sdk"))]
    [] mode = "external" -> [threw |-> FALSE, message |-> "", engine |-> Some(NewEngine("external"))]
    [] OTHER -> [threw |-> TRUE, message |-> "Unknown playback mode: " \o mode, engine |-> None]

InitFactory ==
  /\ created = << >>
  /\ heap = 0

\* one call of PlayerFactory.create; a constructed engine is a new object
Create ==
  /\ Len(created) < MaxCreates
  /\ \E mode \in FactoryModes :
       LET result == create(mode)
       IN /\ created' = Append(created,
                 [mode |-> mode, threw |-> result.threw, message |-> result.message,
                  engine |-> result.engine, ref |-> IF result.threw THEN 0 ELSE heap + 1])
          /\ heap' = IF result.threw THEN heap ELSE heap + 1
  /\ UNCHANGED notFactory

NextFactory == Create

(***************************************************************************)
(* Specifications.                                                         *)
(***************************************************************************)
vars == <<extractVars, scannerVars, engineVars, sessionVars, factoryVars>>

\* extractSpotifyTrackUri on every generated text
InitSpecExtract == InitExtract /\ InitScanner /\ EngineIdle /\ InitSession /\ InitFactory

SpecExtract == InitSpecExtract /\ [][NextExtract]_vars

\* one QRScanner with its camera, timers and clock
InitSpecScanner == ExtractIdle /\ InitScanner /\ EngineIdle /\ InitSession /\ InitFactory

SpecScanner == InitSpecScanner /\ [][NextScanner]_vars

\* one QRScanner and a card with any of the generated texts
InitSpecCard ==
  /\ exInput \in ScannedTexts /\ extracted = None /\ exPc = "idle"
  /\ InitScanner /\ EngineIdle /\ InitSession /\ InitFactory

SpecCard == InitSpecCard /\ [][NextCard]_vars

\* one QRScanner and its decode timers
InitSpecDecode == ExtractIdle /\ InitScanner /\ EngineIdle /\ InitSession /\ InitFactory

SpecDecode == InitSpecDecode /\ [][NextDecode]_vars

\* the scanners of a session that stops scanning and starts again
InitSpecRescan == ExtractIdle /\ InitScanner /\ EngineIdle /\ InitSession /\ InitFactory

SpecRescan == InitSpecRescan /\ [][NextRescan]_vars

\* one engine of either variant, called by its owner in any order
InitSpecEngine == ExtractIdle /\ InitScanner /\ InitEngine /\ InitSession /\ InitFactory

SpecEngine == InitSpecEngine /\ [][NextEngine]_vars

\* one SDK engine and the events of its Spotify.Player
InitSpecListener == ExtractIdle /\ InitScanner /\ EngineIdle /\ InitSession /\ InitFactory

SpecListener == InitSpecListener /\ [][NextListener]_vars

\* one SDK engine being initialized: the script loads or times out, and the
\* player, once connected, sends an event as long as it has one to send.
\* initialize() arms no timer after connect() (lines 56-158), so once the
\* player has sent its last event no code of the engine runs any more.
InitSpecInitialize == ExtractIdle /\ InitScanner /\ EngineIdle /\ InitSession /\ InitFactory

SpecInitialize ==
  /\ InitSpecInitialize
  /\ [][NextInitialize]_vars
  /\ WF_vars(ScriptAnswers)
  /\ WF_vars(PlayerAnswers)

\* the engine of a scanning session and the cards played on it
InitSpecPlays == ExtractIdle /\ InitScanner /\ InitPlays /\ InitSession /\ InitFactory

SpecPlays == InitSpecPlays /\ [][NextPlays]_vars

\* the session from the device list on, under the user's clicks
InitSpecSession == ExtractIdle /\ InitScanner /\ EngineIdle /\ InitSession /\ InitFactory

SpecSession == InitSpecSession /\ [][NextSession]_vars

\* PlayerFactory.create called with any modes
InitSpecFactory == ExtractIdle /\ InitScanner /\ EngineIdle /\ InitSession /\ InitFactory

SpecFactory == InitSpecFactory /\ [][NextFactory]_vars


(***************************************************************************)
(* Properties of handleScan (specification SpecScanner).                   *)
(***************************************************************************)
\* the latest handleScan call had an accepted scan before it
HasPrev == lastCall.seq > 0 /\ lastCall.logBefore >= 1

\* the last scan accepted before the latest handleScan call
Prev == onScanLog[lastCall.logBefore]

\* time from that acceptance to the latest call
SincePrev == lastCall.at - Prev.at

\* C1: any two consecutive accepted scans (onScan invocations) are at least cooldownMs
\* apart, whatever their payloads and whichever decode source submitted them.
C1_CooldownBetweenAccepted ==
  \A i \in 1..(Len(onScanLog) - 1) : onScanLog[i + 1].at - onScanLog[i].at >= cooldownMs

\* two scans of different payloads were accepted exactly cooldownMs apart
C1_Witness ==
  /\ Len(onScanLog) >= 2
  /\ onScanLog[2].at - onScanLog[1].at = cooldownMs
  /\ onScanLog[2].text # onScanLog[1].text

\* C2: after payload P is accepted at t0, resubmitting P at a time in
\* [t0 + cooldownMs, t0 + 2*cooldownMs) is rejected, and resubmitting it at
\* t0 + 2*cooldownMs or later, with no acceptance in between, is accepted.
C2_SamePayloadSuppression ==
  (HasPrev /\ lastCall.text = Prev.text) =>
    /\ (SincePrev >= cooldownMs /\ SincePrev < 2 * cooldownMs) => ~lastCall.accepted
    /\ SincePrev >= 2 * cooldownMs => lastCall.accepted

\* P was accepted, accepted again exactly 2*cooldownMs later, and then rejected
\* exactly cooldownMs after that
C2_Witness ==
  /\ HasPrev
  /\ lastCall.logBefore = 2
  /\ onScanLog[1].text = onScanLog[2].text
  /\ onScanLog[2].at - onScanLog[1].at = 2 * cooldownMs
  /\ lastCall.text = Prev.text
  /\ SincePrev = cooldownMs
  /\ ~lastCall.accepted

\* C3: after payload P is accepted at t0, a valid payload Q different from P submitted
\* at t0 + cooldownMs or later is accepted, also inside P's 2*cooldownMs window.
C3_DifferentPayloadOverride ==
  (/\ HasPrev
   /\ lastCall.text # Prev.text
   /\ extractSpotifyTrackUri(lastCall.text).some
   /\ SincePrev >= cooldownMs) => lastCall.accepted

\* a different valid payload was accepted inside the previous payload's doubled window
C3_Witness ==
  /\ HasPrev
  /\ lastCall.text # Prev.text
  /\ SincePrev >= cooldownMs
  /\ SincePrev < 2 * cooldownMs
  /\ lastCall.accepted

\* C4: a handleScan call whose payload is no track reference invokes neither onScan
\* nor onError and leaves lastScannedCode and lastScanTime unchanged.
C4_InvalidPayloadIgnored ==
  [][(lastCall'.seq # lastCall.seq /\ ~TrackUriOf[lastCall'.text].some)
       => UNCHANGED <<lastScannedCode, lastScanTime, onScanLog, onErrorLog>>]_vars

\* an invalid payload arrived after an accepted scan's cooldown and doubled window had
\* passed, and was ignored
C4_Witness ==
  /\ HasPrev
  /\ ~extractSpotifyTrackUri(lastCall.text).some
  /\ SincePrev >= 2 * cooldownMs
  /\ ~lastCall.accepted
  /\ lastScanTime = Prev.at
  /\ lastScannedCode = Some(Prev.text)

\* C20: a decode cycle in which reading or decoding the frame throws does
\* nothing: no onError, no change of the scanner, the timers stay armed.
C20_DecodeNeverThrows == [][cycleThrew' => UNCHANGED <<gateVars, lifeVars>>]_vars

\* a decode cycle threw while the scanner was running; both timers are still armed
C20_Witness ==
  /\ cycleThrew
  /\ isScanning
  /\ timers = {"jsqr", "inverted"}
  /\ onErrorLog = <<>>

\* what the decode cycle just run found that makes it skip (lines 182-183, 188-189)
CycleBlocked ==
  \/ cycle.video.readyState # 4
  \/ cycle.video.videoWidth = 0
  \/ cycle.video.videoHeight = 0
  \/ ~isScanning

\* C21: a decode cycle of either strategy that finds the video not ready
\* (readyState other than 4), the frame's width or height zero, or the scanner
\* not scanning is skipped entirely: it reads no frame, submits no scan, throws
\* nothing, reports no error and changes nothing of the scanner.
C21_CycleSkipped ==
  [][(cycle'.ran /\ CycleBlocked') =>
       /\ ~cycle'.read
       /\ ~cycleThrew'
       /\ UNCHANGED <<gateVars, lifeVars>>]_vars

\* a decode cycle ran on a ready video of width zero while the scanner was scanning
C21_Witness ==
  /\ cycle.ran /\ ~cycle.read
  /\ isScanning
  /\ cycle.video.readyState = 4 /\ cycle.video.videoWidth = 0

\* C29: stop() has cleared both decode timers when it invokes the camera's
\* release, and no decode cycle reads the video after the camera was released.
C29_TimersClearedBeforeRelease ==
  [][/\ (camera' = "stopping" /\ camera # "stopping") =>
          (timers' = {} /\ ~scanInterval' /\ ~invertedScanInterval')
     /\ cycle'.read => camera' # "stopped"]_vars

\* a decode timer armed while the camera was stopping fired after the release
C29_Witness ==
  /\ camera = "stopped"
  /\ cycle.ran /\ ~cycle.read

\* C30: the first valid payload a scanner started after a stop reads is
\* accepted, whatever was accepted before the stop and however recently.
C30_FreshAfterRestart ==
  (instances > 1 /\ lastCall.seq = callsBefore + 1 /\ TrackUriOf[lastCall.text].some) =>
    lastCall.accepted

\* a payload accepted by the scanner before was accepted again by the new
\* scanner at the same instant
C30_Witness ==
  /\ instances > 1 /\ lastCall.seq = callsBefore + 1 /\ lastCall.accepted
  /\ acceptedBefore.some
  /\ acceptedBefore.val.text = lastCall.text
  /\ acceptedBefore.val.at = lastCall.at

\* C31: once a stop() call has returned, neither decode timer is armed.
C31_NoTimerAfterStop ==
  stopReturned => (timers = {} /\ ~scanInterval /\ ~invertedScanInterval)

\* C32: from the moment stop() has been called on a scanner, the scanner
\* invokes onScan no more.
C32_NoScanAfterStop ==
  [][(started /\ (stopReturned \/ stopPc # "idle")) => Len(onScanLog') <= Len(onScanLog)]_vars

\* C39: two onScan invocations with the same track URI are at least
\* 2 * cooldownMs apart, whatever the texts that carried the track.
C39_SameTrackTwoCooldowns ==
  \A i, j \in DOMAIN onScanLog :
    (i < j /\ onScanLog[i].uri = onScanLog[j].uri)
      => onScanLog[j].at - onScanLog[i].at >= 2 * cooldownMs

\* the text is 'spotify:track:' followed by 15 to 25 alphanumerics and nothing else
IsCanonicalTrackUri(u) ==
  /\ StartsWith(u, UriPrefix)
  /\ Len(u) - Len(UriPrefix) \in MinIdLen..MaxIdLen
  /\ AlnumRun(u, Len(UriPrefix) + 1) = Len(u) - Len(UriPrefix)

\* C40: every track URI passed to onScan is 'spotify:track:<ID>' with an ID of
\* 15 to 25 alphanumerics and nothing after it.
C40_ScansAreCanonical ==
  \A i \in DOMAIN onScanLog : IsCanonicalTrackUri(onScanLog[i].uri)

(***************************************************************************)
(* Properties of the playback engines.                                     *)
(***************************************************************************)
\* C8: while the SDK engine's readiness flag is false, play() rejects with the
\* not-ready error, sends no request and leaves isPlaying and currentTrack as
\* they were.
C8_NotReadyFailsFast ==
  (engine.type = "sdk" /\ lastSettled.op = "play" /\ ~lastSettled.readyAtCall) =>
    /\ lastSettled.outcome = "rejected"
    /\ lastSettled.message = "SDK player not ready"
    /\ lastSettled.reqs = 0
    /\ lastSettled.isPlayingAt = lastSettled.isPlayingBefore
    /\ lastSettled.trackAt = lastSettled.trackBefore

\* play() was refused after a not_ready event: the device id is still known
C8_Witness ==
  /\ engine.type = "sdk"
  /\ lastSettled.op = "play" /\ ~lastSettled.readyAtCall
  /\ lastSettled.outcome = "rejected"
  /\ engine.deviceId.some /\ engine.player /\ ~engine.ready

\* C9: after play(uri) resolves on either engine, isPlaying is true and
\* currentTrack is the TrackInfo that play returned.
C9_PlayResolvedState ==
  (lastSettled.op = "play" /\ lastSettled.outcome = "resolved") =>
    /\ lastSettled.isPlayingAt
    /\ lastSettled.trackAt = lastSettled.value

\* C10: on the external engine every operation maps a 401, 403 or 404
\* response to the auth-expired, premium-required or device-unavailable error,
\* and the 404 error's message speaks of the missing device.
C10_RemoteStatusMapping ==
  (engine.type = "external" /\ lastSettled.status \in {401, 403, 404}) =>
    /\ lastSettled.outcome = "rejected"
    /\ lastSettled.status = 401 => lastSettled.message = "Token expired. Please log in again."
    /\ lastSettled.status = 403 => lastSettled.message = "Premium required for playback control."
    /\ lastSettled.status = 404 =>
         /\ lastSettled.message = "No active device found. Open Spotify on a device first."
         /\ Includes(lastSettled.message, "No active device")

\* play()'s track info request was answered 404
C10_Witness ==
  /\ engine.type = "external"
  /\ lastSettled.op = "play" /\ lastSettled.reqs = 2
  /\ lastSettled.status = 404 /\ lastSettled.outcome = "rejected"

\* the body of the service's response with an error status
BodyOf(status) == (CHOOSE r \in ErrorResponses : r.status = status).body

\* C11: when play()'s playback request is answered with a failure other than
\* 401, 403 or 404, either engine rejects with an error whose message carries
\* the raw response body.
C11_OtherFailureCarriesBody ==
  (/\ lastSettled.op = "play"
   /\ lastSettled.reqs = 1
   /\ lastSettled.status >= 400
   /\ lastSettled.status \notin {401, 403, 404}) =>
    /\ lastSettled.outcome = "rejected"
    /\ Includes(lastSettled.message, BodyOf(lastSettled.status))

\* C12: togglePlayback() on an engine that is not playing resumes and returns
\* true, on an engine that is playing pauses and returns false; the value it
\* returns is isPlaying as the call leaves it.
C12_ToggleFlips ==
  (lastSettled.op = "togglePlayback" /\ lastSettled.outcome = "resolved") =>
    IF lastSettled.isPlayingBefore
    THEN lastSettled.arg = "pause" /\ ~lastSettled.isPlayingAt
    ELSE lastSettled.arg = "resume" /\ lastSettled.isPlayingAt

\* C13: destroy() leaves currentTrack = none and isPlaying = false in any
\* state, and a second destroy() right after the first changes nothing.
C13_DestroyIdempotent ==
  [][destroyRun' > destroyRun =>
       /\ engine'.currentTrack = None
       /\ ~engine'.isPlaying
       /\ destroyRun >= 1 => engine' = engine]_vars

\* destroy() was called twice in a row
C13_Witness ==
  /\ destroyRun = 2
  /\ engine.currentTrack = None /\ ~engine.isPlaying

\* C14: after destroy() the engine is as a freshly constructed one: no
\* connection, no device id, no readiness, no token and no refresh callback.
C14_DestroyedIsFresh ==
  destroyRun >= 1 =>
    /\ ~engine.player
    /\ ~engine.deviceId.some
    /\ ~engine.ready
    /\ ~engine.token.some
    /\ ~engine.getTokenCallback

\* C15: initialize() without a token rejects and leaves the engine as it was:
\* no token stored, no connection created, no readiness set.
C15_InitializeNeedsToken ==
  [][(lastSettled' # lastSettled /\ lastSettled'.op = "initialize" /\ lastSettled'.arg = "") =>
       /\ lastSettled'.outcome = "rejected"
       /\ Includes(lastSettled'.message, "Access token required")
       /\ engine' = engine
       /\ sdkPlayers' = sdkPlayers]_vars

\* initialize() without a token was refused on an SDK engine
C15_Witness ==
  /\ engine.type = "sdk"
  /\ lastSettled.op = "initialize" /\ lastSettled.arg = ""
  /\ lastSettled.outcome = "rejected"
  /\ ~engine.token.some /\ ~engine.player /\ ~engine.ready

\* C16: a second initialize() on the same engine creates no second connection
\* and no second set of listeners.
C16_InitializeOnce == sdkPlayers <= 1

\* C17: setVolume(percent) does not fail because of its argument and transmits
\* the argument clamped into [0,100].
C17_VolumeClamped ==
  lastSettled.op = "setVolume" =>
    /\ lastSettled.sent >= 0 /\ lastSettled.sent <= 100
    /\ lastSettled.input < 0 => lastSettled.sent = 0
    /\ lastSettled.input > 100 => lastSettled.sent = 100
    /\ (lastSettled.input >= 0 /\ lastSettled.input <= 100) => lastSettled.sent = lastSettled.input
    /\ lastSettled.outcome = "rejected" => lastSettled.status >= 400

\* setVolume(-10) went out as 0 and succeeded
C17_Witness ==
  /\ lastSettled.op = "setVolume"
  /\ lastSettled.input < 0 /\ lastSettled.sent = 0
  /\ lastSettled.outcome = "resolved"

C18_FactoryByMode ==
  /\ \A i \in DOMAIN created :
       LET c == created[i]
       IN /\ c.mode = "sdk" => ~c.threw /\ c.engine = Some(NewEngine("sdk"))
          /\ c.mode = "external" => ~c.threw /\ c.engine = Some(NewEngine("external"))
          /\ c.mode \notin {"sdk", "external"} =>
               c.threw /\ ~c.engine.some /\ c.message = "Unknown playback mode: " \o c.mode
  /\ \A i, j \in DOMAIN created :
       (i # j /\ ~created[i].threw /\ ~created[j].threw) => created[i].ref # created[j].ref

\* create('sdk') twice gave two objects, and create('bogus') threw
C18_Witness ==
  /\ Len(created) = 3
  /\ created[1].mode = "sdk" /\ created[2].mode = "sdk" /\ created[1].ref # created[2].ref
  /\ created[3].mode = "bogus" /\ created[3].threw

\* the service took the command a settled call sent (a 2xx answer), or the call
\* sent none
CommandAccepted(s) == s.status = 0 \/ (s.status >= 200 /\ s.status <= 299)

\* C25: a pause() that completes on an engine that is paused, and a resume()
\* that completes on one that is playing, resolves and leaves isPlaying as it
\* was, when the service accepted the command.
C25_PauseResumeIdempotent ==
  [][(/\ lastSettled' # lastSettled
      /\ lastSettled'.op \in {"pause", "resume"}
      /\ CommandAccepted(lastSettled')
      /\ engine.isPlaying = (lastSettled'.op = "resume"))
     => (/\ lastSettled'.outcome = "resolved"
         /\ engine'.isPlaying = engine.isPlaying)]_vars

\* the only call made on an external engine was a pause() while paused, the
\* service answered 204 and the call resolved
C25_Witness ==
  /\ engine.type = "external"
  /\ nCalls = 1
  /\ lastSettled.op = "pause"
  /\ lastSettled.status = 204
  /\ lastSettled.outcome = "resolved"
  /\ ~lastSettled.isPlayingBefore
  /\ ~engine.isPlaying

\* a play, pause, resume, togglePlayback or setVolume call of the owner is in progress
OwnerCallInProgress ==
  \E o \in ops : o.op \in {"play", "pause", "resume", "togglePlayback", "setVolume"}

\* C26: no step invokes onStateChange, onTrackEnd or onError while a play,
\* pause, resume, togglePlayback or setVolume call of the owner is in progress.
C26_NoCallbackDuringOwnerCall == [][fired' # << >> => ~OwnerCallInProgress]_vars

\* C27: currentTrack changes only in the step that resolves a play() and in a
\* destroy().
C27_TrackChangesOnlyByPlayOrDestroy ==
  [][engine'.currentTrack # engine.currentTrack
     => (\/ destroyRun' = destroyRun + 1
         \/ (/\ lastSettled' # lastSettled
             /\ lastSettled'.op = "play"
             /\ lastSettled'.outcome = "resolved"))]_vars

\* the number of entries of a sequence that equal x
Count(seq, x) == Cardinality({i \in DOMAIN seq : seq[i] = x})

\* C33: a destroyed engine has isPlaying false and currentTrack none, whatever
\* completes after the destroy.
C33_DestroyedStaysCleared ==
  EngineDropped => (~engine.isPlaying /\ engine.currentTrack = None)

\* the track ID a play call asked for
RequestedId(s) == SplitField(s.arg, ":", 2).val

\* C34: when the last of two plays completes, both having resolved with their
\* track lookups answered, currentTrack is the track the later call asked for.
C34_LaterPlayWins ==
  [][(/\ ops # {} /\ ops' = {}
      /\ ~EngineDropped'
      /\ lastSettled.op = "play" /\ lastSettled.outcome = "resolved" /\ lastSettled.status = 200
      /\ lastSettled'.op = "play" /\ lastSettled'.outcome = "resolved" /\ lastSettled'.status = 200
      /\ lastSettled'.id # lastSettled.id)
     => (/\ engine'.currentTrack.some
         /\ engine'.currentTrack.val.id =
              RequestedId(IF lastSettled'.id > lastSettled.id THEN lastSettled' ELSE lastSettled))]_vars

\* C35: a play() that rejected leaves isPlaying and currentTrack as they were
\* when it was called.
C35_RejectedPlayChangesNothing ==
  (lastSettled.op = "play" /\ lastSettled.outcome = "rejected")
    => (/\ lastSettled.isPlayingAt = lastSettled.isPlayingBefore
        /\ lastSettled.trackAt = lastSettled.trackBefore)

\* C36: the TrackInfo a resolved play(uri) returns has the ID of uri.
C36_ReturnedTrackIsRequested ==
  (lastSettled.op = "play" /\ lastSettled.outcome = "resolved")
    => (lastSettled.value.some /\ lastSettled.value.val.id = RequestedId(lastSettled))

\* an initialize() call is pending
InitializePending == \E o \in ops : o.op = "initialize"

\* C37: every initialize() of the SDK engine that is pending is settled later.
C37_InitializeSettles == InitializePending ~> ~InitializePending

\* C38: with onStateChange set, a step invokes onStateChange once when it
\* changes isPlaying and not at all when it does not.
C38_StateChangeOneToOne ==
  [][(engine.onStateChange /\ destroyRun' = 0)
     => Count(fired', "onStateChange") = (IF engine'.isPlaying # engine.isPlaying THEN 1 ELSE 0)]_vars

(***************************************************************************)
(* Properties of the player_state_changed listener (specification          *)
(* SpecListener).                                                          *)
(***************************************************************************)
\* C28: with onTrackEnd set, the SDK engine invokes onTrackEnd for a
\* player_state_changed event exactly when the event's state is paused at
\* position 0 with previous tracks, and then once; no other step invokes it.
C28_TrackEndExactly ==
  [][/\ evt'.some /\ engine.onTrackEnd
        => Count(fired', "onTrackEnd") =
             (IF ~evt'.val.null /\ evt'.val.paused /\ evt'.val.position = 0 /\ evt'.val.hasPrevious
              THEN 1 ELSE 0)
     /\ ~evt'.some => Count(fired', "onTrackEnd") = 0]_vars

\* an event paused at position 0 with previous tracks has just invoked onTrackEnd
C28_Witness ==
  /\ evt.some /\ evt.val.paused /\ evt.val.position = 0 /\ evt.val.hasPrevious
  /\ Count(fired, "onTrackEnd") = 1

(***************************************************************************)
(* Properties of the session controller.                                   *)
(***************************************************************************)
\* engines that were constructed and not destroyed
LiveEngines == {i \in DOMAIN engines : engines[i].destroyed = 0}

\* scanners whose camera runs or whose decode timers are armed
RunningScanLoops == {i \in DOMAIN scanners : scanners[i].camera = "running" \/ scanners[i].timers}

\* C6: the session never has two engines or two scan loops alive: an engine is
\* constructed only after the previous one was destroyed, and every engine is
\* destroyed exactly once before the session replaces or drops its reference.
C6_OneEngineOneLoop ==
  /\ Cardinality(LiveEngines) <= 1
  /\ \A i \in DOMAIN engines : engines[i].destroyed <= 1
  /\ \A i \in DOMAIN engines : i # player => engines[i].destroyed = 1
  /\ Cardinality(RunningScanLoops) <= 1

\* C7: at most one scan loop runs at any time, and no scan loop runs that the
\* session has let go of: handleChangeDevice stops the previous QRScanner
\* before a new one is started.
C7_OneScanLoop ==
  /\ Cardinality({i \in DOMAIN scanners : scanners[i].camera \in {"starting", "running"} \/ scanners[i].timers}) <= 1
  /\ \A i \in DOMAIN scanners : i # scanner => scanners[i].camera # "running" /\ ~scanners[i].timers

\* C22: the step in which a handler catches a premium-required rejection of
\* initialize or play destroys the engine the session holds, drops it and
\* shows the device list.
C22_PremiumFallsBack ==
  [][failure'.kind = "premium"
     => (/\ player # 0
         /\ engines'[player].destroyed = engines[player].destroyed + 1
         /\ player' = 0
         /\ screen' = "setup")]_vars

\* C23: the step in which a handler catches the rejection of a play whose
\* request was answered 401 shows the login screen, and starts no further call.
C23_AuthFailureShowsLogin ==
  [][failure'.kind = "auth" => (screen' = "login" /\ tasks' \subseteq tasks)]_vars

\* the step is taken by handleChangeDevice: by the click or by the handler's
\* continuation after the scanner stopped
ChangeDeviceStep ==
  \/ screen = "player" /\ nClicks' = nClicks + 1 /\ scanner' = 0
  \/ \E t \in tasks \ tasks' : t.kind = "change"

\* C24: the screen changes only from login to the device list, from the
\* device list to the player screen, and from the player screen to the device
\* list in a step of handleChangeDevice.
C24_OnlyListedTransitions ==
  [][screen' # screen
     => (\/ screen = "login" /\ screen' = "setup"
         \/ screen = "setup" /\ screen' = "player"
         \/ screen = "player" /\ screen' = "setup" /\ ChangeDeviceStep)]_vars

====
